---- MODULE Spec2Model ----
(***************************************************************************)
(* Entity Permissions Core: the audit ledger (hash chain, verifier), the   *)
(* permission cache, the role/assignment manager and the authorization     *)
(* engine, modelled as request-scoped transactions over one relational     *)
(* store and one process-wide cache.                                       *)
(*                                                                         *)
(* Modelling conventions                                                   *)
(*  - identifiers (UUIDs, names, actions) are strings; NoneVal is Python's *)
(*    None for an optional identifier; an optional number or datetime is a *)
(*    sequence of length 0 (None) or 1.                                    *)
(*  - SHA-256 is a collision-free constructor: the digest of              *)
(*    previous_hash ++ canonical_json is the pair <<previous_hash, json>>. *)
(*    The 64-zero genesis hash is the empty tuple.                         *)
(*  - canonical JSON (sorted keys, no whitespace) of a dict is the record  *)
(*    of its keys; a details dict is a set of <<key, value>> pairs.        *)
(*  - a datetime is [wall, tz]: wall-clock reading and UTC offset (tz is   *)
(*    <<>> for a naive datetime); an ISO-8601 UTC text is the UTC instant. *)
(*  - each request runs in its own transaction: rows written by flush()    *)
(*    stay in wr[p] until Commit publishes them; a statement sees the      *)
(*    committed rows and the transaction's own rows.                       *)
(***************************************************************************)
EXTENDS Integers, Sequences, FiniteSets, TLC

VARIABLES
    now,            \* wall clock (UTC instant)
    dialect,        \* session.get_bind().dialect.name
    entities,       \* entities table: set of rows
    roles,          \* roles table (with the role's permission actions)
    assignments,    \* role_assignments table
    ledger,         \* audit_logs table (committed rows)
    store,          \* InMemoryPermissionCache._store
    principalIndex, \* InMemoryPermissionCache._principal_index
    pc,             \* per request: position in its handler
    req,            \* per request: operation and arguments
    loc,            \* per request: local variables of the handler
    wr,             \* per request: rows flushed but not yet committed
    ret,            \* per request: value returned / exception raised last
    rowLocks,       \* FOR UPDATE locks on audit_logs rows: <<sequence, owner>>
    nextId,         \* source of fresh primary keys (uuid4)
    lastVerify,     \* last AuditVerifier.verify call: arguments and outcome
    tampered,       \* sequences of rows modified behind the ledger's back
    hist,           \* observation counters of completed calls
    platformEvents, \* platform_events table (committed rows)
    published,      \* calls of EventPublisher.publish: envelope and outcome
    handled,        \* calls of WorkflowOrchestrator.handle_event and outcome
    nextEventId,    \* source of fresh envelope event ids (uuid4)
    queue,          \* the audit SQS queue and each consumer's receipt
    redis,          \* the Redis database behind RedisPermissionCache
    backend         \* class built by get_permission_cache: memory or redis

vars == <<now, dialect, entities, roles, assignments, ledger, store,
          principalIndex, pc, req, loc, wr, ret, rowLocks, nextId,
          lastVerify, tampered, hist, platformEvents, published,
          handled, nextEventId, queue, redis, backend>>

\* the variables of the events engine and of the Redis database
eventVars ==
    <<platformEvents, published, handled, nextEventId, queue, redis>>

---------------------------------------------------------------------------
(* Bounds *)

NumProcs == 2       \* concurrent request transactions
MaxSeq == 3         \* ledger rows at which requests stop being admitted
MaxTime == 1        \* last clock reading
MaxOps == 4         \* requests admitted after the seeded createRole
MaxEvals == 1       \* evaluated decisions per run of the evaluation check
MaxIds == 2         \* primary keys handed out to new assignments
MaxEvents == 2      \* event ids handed out to new envelopes

Procs == 1..NumProcs

\* record calls after which no more are admitted: room for one replay
MaxCalls == MaxSeq + 1

---------------------------------------------------------------------------
(* Values *)

NoneVal == "None"
GENESIS_HASH == <<>>
HASH_VERSION == 1
DEFAULT_SOURCE == "entity_permissions_core"
DEFAULT_ACTOR_TYPE == "user"

Dialects == {"postgresql", "sqlite"}

Naive(w) == [wall |-> w, tz |-> <<>>]
Aware(w, off) == [wall |-> w, tz |-> <<off>>]

\* datetime.now(timezone.utc)
UtcNow(t) == Aware(t, 0)

KeepsOffset(ts) ==
    IF ts.tz = <<>> THEN Aware(ts.wall, 0) ELSE ts
\* AuditEvent._enforce_timezone: naive is taken as UTC, aware is converted
EnforceTimezone(ts) ==
    IF ts.tz = <<>> THEN Aware(ts.wall, 0)
    ELSE Aware(ts.wall - ts.tz[1], 0)

\* value.astimezone(timezone.utc).isoformat() of an aware datetime
UtcIsoformat(ts) == ts.wall - ts.tz[1]

\* DateTime(timezone=True) column round trip: SQLite keeps the wall-clock
\* reading and drops the offset, PostgreSQL keeps the instant
StoredDatetime(d, ts) ==
    IF d = "sqlite" THEN Naive(ts.wall) ELSE Aware(ts.wall - ts.tz[1], 0)

\* AuditService._optional_str
OptionalStr(v) == IF v = NoneVal THEN NoneVal ELSE v

BoolStr(b) == IF b THEN "true" ELSE "false"

---------------------------------------------------------------------------
(* Audit ledger: pure parts *)

\* AuditEvent(...) built by AuditService.record
AuditEvent(event_id, source, action, actor_id, actor_type, entity_id, entity_type, correlation_id, details, occurred_at) ==
    [event_id |-> event_id, source |-> source, action |-> action,
     actor_id |-> actor_id, actor_type |-> actor_type,
     entity_id |-> entity_id, entity_type |-> entity_type,
     correlation_id |-> correlation_id, details |-> details,
     occurred_at |-> EnforceTimezone(occurred_at)]

\* AuditService.record with its defaults
RecordArgs(action, actor_id, entity_id, entity_type, details, t) ==
    AuditEvent(NoneVal, DEFAULT_SOURCE, action, actor_id, DEFAULT_ACTOR_TYPE,
               entity_id, entity_type, NoneVal, details, UtcNow(t))

\* AuditService._serialize_for_hash of the payload dict
SerializeForHash(sequence, hash_version, event_id, source, action, actor_id, actor_type, entity_id, entity_type, correlation_id, details, occurred_at, previous_hash) ==
    [sequence |-> sequence, hash_version |-> hash_version,
     event_id |-> event_id, source |-> source, action |-> action,
     actor_id |-> actor_id, actor_type |-> actor_type,
     entity_id |-> entity_id, entity_type |-> entity_type,
     correlation_id |-> correlation_id, details |-> details,
     occurred_at |-> occurred_at, previous_hash |-> previous_hash]

\* AuditService._compute_entry_hash
ComputeEntryHash(previous_hash, canonical_payload) ==
    <<previous_hash, canonical_payload>>

SkipsSequence(previous_sequence) == previous_sequence + 2
\* record_event line 69
NextSequence(previous_sequence) == previous_sequence + 1

\* the AuditLog row record_event builds from the locked tip and the event
BuildAuditEntry(d, previous_sequence, previous_hash, event) ==
    LET next_sequence == NextSequence(previous_sequence)
        canonical_payload ==
            SerializeForHash(next_sequence, HASH_VERSION, event.event_id,
                event.source, event.action, OptionalStr(event.actor_id),
                event.actor_type, OptionalStr(event.entity_id),
                event.entity_type, event.correlation_id, event.details,
                UtcIsoformat(event.occurred_at), previous_hash)
    IN [sequence |-> next_sequence,
        previous_hash |-> previous_hash,
        entry_hash |-> ComputeEntryHash(previous_hash, canonical_payload),
        hash_version |-> HASH_VERSION,
        event_id |-> event.event_id,
        source |-> event.source,
        occurred_at |-> StoredDatetime(d, event.occurred_at),
        actor_id |-> event.actor_id,
        actor_type |-> event.actor_type,
        entity_id |-> event.entity_id,
        entity_type |-> event.entity_type,
        action |-> event.action,
        correlation_id |-> event.correlation_id,
        details |-> event.details]

MaxSequence(rows) ==
    IF rows = {} THEN 0
    ELSE CHOOSE n \in {e.sequence : e \in rows} :
            \A e \in rows : e.sequence <= n

\* SELECT sequence, entry_hash ... ORDER BY sequence DESC LIMIT 1
ChainTip(rows) ==
    IF rows = {} THEN [sequence |-> 0, entry_hash |-> GENESIS_HASH]
    ELSE LET top == CHOOSE e \in rows : e.sequence = MaxSequence(rows)
         IN [sequence |-> top.sequence, entry_hash |-> top.entry_hash]

RECURSIVE OrderBySequence(_)
\* ORDER BY sequence ASC
OrderBySequence(rows) ==
    IF rows = {} THEN <<>>
    ELSE LET first == CHOOSE e \in rows :
                        \A o \in rows : e.sequence <= o.sequence
         IN <<first>> \o OrderBySequence(rows \ {first})

---------------------------------------------------------------------------
(* Audit verifier *)

VerificationResult(checked, start_sequence, end_sequence) ==
    [ok |-> TRUE, checked |-> checked, start_sequence |-> start_sequence,
     end_sequence |-> end_sequence, error |-> "", sequence |-> 0]

\* AuditVerificationError; sequence is the sequence the message names
AuditVerificationError(kind, sequence) ==
    [ok |-> FALSE, checked |-> 0, start_sequence |-> 0, end_sequence |-> 0,
     error |-> kind, sequence |-> sequence]

\* the timestamp the verifier hashes for a stored row
VerifierIsoformat(ts) ==
    UtcIsoformat(IF ts.tz = <<>> THEN Aware(ts.wall, 0) ELSE ts)

TrustsStoredHash(entry, previous_hash) == entry.entry_hash
\* verify lines 80-97: the hash recomputed from the row's columns
ExpectedHash(entry, previous_hash) ==
    ComputeEntryHash(previous_hash,
        SerializeForHash(entry.sequence, entry.hash_version, entry.event_id,
            entry.source, entry.action, OptionalStr(entry.actor_id),
            entry.actor_type, OptionalStr(entry.entity_id),
            entry.entity_type, entry.correlation_id, entry.details,
            VerifierIsoformat(entry.occurred_at), previous_hash))

RECURSIVE StopsAtGap(_, _, _, _, _)
StopsAtGap(entries, i, previous_hash, expected_sequence, checked) ==
    IF i > Len(entries)
    THEN VerificationResult(checked, entries[1].sequence,
                            entries[Len(entries)].sequence)
    ELSE LET entry == entries[i]
             expected == IF expected_sequence = <<>> THEN entry.sequence
                         ELSE expected_sequence[1] + 1
         IN IF entry.sequence # expected
            THEN VerificationResult(checked, entries[1].sequence,
                                    entries[i].sequence)
            ELSE IF \/ entry.previous_hash # previous_hash
                    \/ entry.entry_hash # ExpectedHash(entry, previous_hash)
                 THEN AuditVerificationError("Hash mismatch", entry.sequence)
                 ELSE StopsAtGap(entries, i + 1, entry.entry_hash,
                                 <<expected>>, checked + 1)

RECURSIVE VerifyLoop(_, _, _, _, _)
\* the for loop of AuditVerifier.verify from position i on
VerifyLoop(entries, i, previous_hash, expected_sequence, checked) ==
    IF i > Len(entries)
    THEN VerificationResult(checked, entries[1].sequence,
                            entries[Len(entries)].sequence)
    ELSE LET entry == entries[i]
             expected == IF expected_sequence = <<>> THEN entry.sequence
                         ELSE expected_sequence[1] + 1
         IN IF entry.sequence # expected
            THEN AuditVerificationError("Sequence gap detected", entry.sequence)
            ELSE IF \/ entry.previous_hash # previous_hash
                    \/ entry.entry_hash # ExpectedHash(entry, previous_hash)
                 THEN AuditVerificationError("Hash mismatch", entry.sequence)
                 ELSE VerifyLoop(entries, i + 1, entry.entry_hash,
                                 <<expected>>, checked + 1)

VerifyFromGenesis(rows, start_sequence, end_sequence) ==
    LET selected == {e \in rows :
            /\ start_sequence = <<>> \/ e.sequence >= start_sequence[1]
            /\ end_sequence = <<>> \/ e.sequence <= end_sequence[1]}
    IN IF selected = {}
       THEN VerificationResult(0, 0, 0)
       ELSE VerifyLoop(OrderBySequence(selected), 1, GENESIS_HASH, <<>>, 0)

\* AuditVerifier.verify(start_sequence, end_sequence) over the table rows
Verify(rows, start_sequence, end_sequence) ==
    LET selected == {e \in rows :
            /\ start_sequence = <<>> \/ e.sequence >= start_sequence[1]
            /\ end_sequence = <<>> \/ e.sequence <= end_sequence[1]}
        entries == OrderBySequence(selected)
        OrZero(x) == IF x = <<>> THEN 0 ELSE x[1]
    IN IF selected = {}
       THEN VerificationResult(0, OrZero(start_sequence), OrZero(end_sequence))
       ELSE IF start_sequence # <<>> /\ start_sequence[1] > 1
            THEN LET previous_entry ==
                        {e \in rows : e.sequence = start_sequence[1] - 1}
                 IN IF previous_entry = {}
                    THEN AuditVerificationError("Missing audit entry",
                                                start_sequence[1] - 1)
                    ELSE VerifyLoop(entries, 1,
                            (CHOOSE e \in previous_entry : TRUE).entry_hash,
                            <<start_sequence[1] - 1>>, 0)
            ELSE VerifyLoop(entries, 1, GENESIS_HASH, <<>>, 0)

---------------------------------------------------------------------------
(* Request transactions *)

NoRet == [kind |-> "none", value |-> NoneVal]
Returned(kind, value) == [kind |-> kind, value |-> value]
Raised(exception) == [kind |-> "exception", value |-> exception]

NoReq == [op |-> "none"]
NoEvent == [event_id |-> NoneVal]
EmptyLoc ==
    [event |-> NoEvent,
     tip |-> [sequence |-> 0, entry_hash |-> GENESIS_HASH],
     entity |-> {}, lineage |-> <<>>, now |-> 0, authorized |-> FALSE,
     assignment |-> {}, wasGranted |-> {}, envelope |-> {}, keys |-> {}]
EmptyWr ==
    [entries |-> {}, newAssign |-> {}, delAssign |-> {},
     newRoles |-> {}, updRoles |-> {}, updEntities |-> {},
     newEvents |-> {}]

\* rows a statement of request p sees: committed rows and p's own
VisibleEntries(p) == ledger \cup wr[p].entries
VisibleAssignments(p) == (assignments \ wr[p].delAssign) \cup wr[p].newAssign
VisibleRoles(p) ==
    {r \in roles : \A u \in wr[p].updRoles : u.id # r.id}
        \cup wr[p].updRoles \cup wr[p].newRoles

PendingEntries(p) == UNION {wr[q].entries : q \in Procs \ {p}}

InFlight == {q \in Procs : pc[q] # "idle"}

\* bound: requests are admitted while the ledger has room for their entry
Room(n) == Cardinality(ledger) + Cardinality(InFlight) < n

\* where the handler continues once AuditService.record has returned
AfterAudit(op) ==
    CASE op = "authorize" -> "cache_set"
      [] op \in {"assign_role", "revoke_assignment"} -> "invalidate_principal"
      [] op \in {"create_role", "update_role"} -> "invalidate_all"
      [] OTHER -> "commit"

SequenceUniqueOnly(entry, rows) ==
    \E r \in rows : r.sequence = entry.sequence
\* uq ix_audit_logs_sequence and uq_audit_logs_event_id against a row set
ViolatesUnique(entry, rows) ==
    \E r \in rows :
        \/ r.sequence = entry.sequence
        \/ entry.event_id # NoneVal /\ r.event_id = entry.event_id

\* AuditService._lock_chain_tip: the tip row is read under FOR UPDATE
\* unless the dialect is sqlite; an empty table has no row to lock
LockChainTip(p) ==
    /\ pc[p] = "lock_tip"
    /\ LET rows == VisibleEntries(p)
           tip == ChainTip(rows)
           locking == dialect # "sqlite" /\ rows # {}
       IN /\ locking =>
                \A l \in rowLocks : l[1] = tip.sequence => l[2] = p
          /\ rowLocks' = IF locking THEN rowLocks \cup {<<tip.sequence, p>>}
                         ELSE rowLocks
          /\ loc' = [loc EXCEPT ![p].tip = tip]
    /\ pc' = [pc EXCEPT ![p] = "insert"]
    /\ UNCHANGED <<eventVars, backend,
                   now, dialect, entities, roles, assignments, ledger, store,
                   principalIndex, req, wr, ret, nextId, lastVerify,
                   tampered, hist>>

\* the bind processor of the JSON column details runs json.dumps without a
\* default: a uuid.UUID object among the values raises TypeError. The one
\* caller that hands over a UUID object is EntityService.update, whose
\* details carry the model_dump of the payload (parent_id: Optional[UUID]).
JsonSerializable(details) ==
    \A kv \in details : kv[1] = "changes.parent_id" => kv[2] = NoneVal

\* record_event lines 71-125: build the row, session.add, session.flush.
\* The flush raises StatementError when details cannot be serialized. The
\* unique indexes make the insert wait for a conflicting uncommitted row
\* and fail with IntegrityError against a conflicting visible row.
InsertEntry(p) ==
    /\ pc[p] = "insert"
    /\ LET entry == BuildAuditEntry(dialect, loc[p].tip.sequence,
                                    loc[p].tip.entry_hash, loc[p].event)
       IN /\ JsonSerializable(entry.details)
                => ~ViolatesUnique(entry, PendingEntries(p))
          /\ IF ~JsonSerializable(entry.details)
             THEN /\ pc' = [pc EXCEPT ![p] = "rollback"]
                  /\ ret' = [ret EXCEPT ![p] = Raised("StatementError")]
                  /\ wr' = wr
             ELSE IF ViolatesUnique(entry, VisibleEntries(p))
             THEN /\ pc' = [pc EXCEPT ![p] = "rollback"]
                  /\ ret' = [ret EXCEPT ![p] = Raised("IntegrityError")]
                  /\ wr' = wr
             ELSE /\ pc' = [pc EXCEPT ![p] = AfterAudit(req[p].op)]
                  /\ ret' = [ret EXCEPT ![p] =
                        IF req[p].op = "record_event"
                        THEN Returned("entry", entry) ELSE ret[p]]
                  /\ wr' = [wr EXCEPT ![p].entries = @ \cup {entry}]
    /\ UNCHANGED <<eventVars, backend,
                   now, dialect, entities, roles, assignments, ledger, store,
                   principalIndex, req, loc, rowLocks, nextId, lastVerify,
                   tampered, hist>>

ExistingByEventAndAction(rows, event) ==
    {e \in rows : /\ event.event_id # NoneVal
                  /\ e.event_id = event.event_id
                  /\ e.action = event.action}
\* record_event lines 62-64: SELECT ... WHERE event_id = :event_id, skipped
\* when the event carries no event_id
ExistingByEventId(rows, event) ==
    LET event_id_str == IF event.event_id # NoneVal THEN event.event_id
                        ELSE NoneVal
    IN IF event_id_str # NoneVal
       THEN {e \in rows : e.event_id = event_id_str}
       ELSE {}

\* _handle_audit_message / AuditService.record_event lines 62-66: the
\* idempotency lookup by event_id; a hit returns the stored row
RecordEventCall(p, event) ==
    /\ pc[p] = "idle"
    /\ LET existing == ExistingByEventId(VisibleEntries(p), event)
       IN IF existing # {}
          THEN /\ pc' = [pc EXCEPT ![p] = "commit"]
               /\ ret' = [ret EXCEPT ![p] =
                            Returned("entry", CHOOSE e \in existing : TRUE)]
               /\ loc' = loc
          ELSE /\ pc' = [pc EXCEPT ![p] = "lock_tip"]
               /\ ret' = ret
               /\ loc' = [loc EXCEPT ![p].event = event]
    /\ req' = [req EXCEPT ![p] = [op |-> "record_event", event |-> event]]
    /\ UNCHANGED <<platformEvents, published, handled, nextEventId, redis,
                   backend,
                   now, dialect, entities, roles, assignments, ledger, store,
                   principalIndex, wr, rowLocks, nextId, lastVerify,
                   tampered, hist>>

\* record_event called outside the queue consumers
RecordEventBegin(p, event) ==
    /\ RecordEventCall(p, event)
    /\ UNCHANGED queue

---------------------------------------------------------------------------
(* Permission cache (InMemoryPermissionCache) *)

PermissionCacheKey(user_id, principal_type, resource_id, action) ==
    <<user_id, principal_type, resource_id, action>>

NeverCached(st, key) == {}
IgnoresKey(st, key) == {c.value : c \in st}
\* get: the set holding the cached value, empty on a miss
CacheGet(st, key) == {c.value : c \in {x \in st : x.key = key}}

\* set: _store[key] = value
CacheSetStore(st, key, value) ==
    {c \in st : c.key # key} \cup {[key |-> key, value |-> value]}

\* set: _principal_index[principal_id].add(key)
CacheSetIndex(idx, key, principal_id) ==
    idx \cup {[principal |-> principal_id, key |-> key]}

KeepsStore(st, idx, principal_id) == st
DropsEveryPrincipal(st, idx, principal_id) == {}
\* invalidate_for_principal: pop the principal's keys, drop them from _store
InvalidatedStore(st, idx, principal_id) ==
    {c \in st : \A i \in idx : i.principal = principal_id => i.key # c.key}

InvalidatedIndex(idx, principal_id) ==
    {i \in idx : i.principal # principal_id}

KeepsDecisions(st) == st
\* invalidate: _store.clear()
ClearedStore(st) == {}

\* invalidate: _principal_index.clear()
ClearedIndex(idx) == {}

---------------------------------------------------------------------------
(* Authorization engine: pure parts *)

RECURSIVE LineageWalk(_, _, _)
\* the while loop of _collect_entity_lineage_ids
LineageWalk(ents, lineage, current_id) ==
    LET parents == {e.parent_id : e \in {x \in ents : x.id = current_id}}
        parent_id == IF parents = {} THEN NoneVal
                     ELSE CHOOSE x \in parents : TRUE
    IN IF parent_id = NoneVal \/ \E i \in 1..Len(lineage) : lineage[i] = parent_id
       THEN lineage
       ELSE LineageWalk(ents, Append(lineage, parent_id), parent_id)

\* AuthorizationService._collect_entity_lineage_ids
CollectEntityLineageIds(ents, entity_id) ==
    LineageWalk(ents, <<entity_id>>, entity_id)

SeqRange(s) == {s[i] : i \in 1..Len(s)}

IgnoresExpiry(asgs, rls, request, lineage_ids, t) ==
    {a \in asgs :
        /\ \E r \in rls : r.id = a.role_id /\ request.action \in r.permissions
        /\ a.principal_id = request.user_id
        /\ a.principal_type = request.principal_type
        /\ a.effective_at <= t
        /\ (a.entity_id = NoneVal \/ a.entity_id \in SeqRange(lineage_ids))}
\* the SELECT of authorize lines 75-90: assignment rows joined to their role
\* and to the role's permission with the requested action
CandidateAssignments(asgs, rls, request, lineage_ids, t) ==
    {a \in asgs :
        /\ \E r \in rls : r.id = a.role_id /\ request.action \in r.permissions
        /\ a.principal_id = request.user_id
        /\ a.principal_type = request.principal_type
        /\ a.effective_at <= t
        /\ (a.expires_at = <<>> \/ a.expires_at[1] > t)
        /\ (a.entity_id = NoneVal \/ a.entity_id \in SeqRange(lineage_ids))}

ApplicableIgnoringScope(a, rls, entity) == \E r \in rls : r.id = a.role_id
\* the loop of authorize lines 93-98 over the selected rows
Applicable(a, rls, entity) ==
    \E r \in rls :
        /\ r.id = a.role_id
        /\ ~(r.scope_types # {} /\ entity.type \notin r.scope_types)

\* the decision authorize computes on a cache miss
Evaluate(asgs, rls, request, entity, lineage_ids, t) ==
    \E a \in CandidateAssignments(asgs, rls, request, lineage_ids, t) :
        Applicable(a, rls, entity)

RequestKey(request) ==
    PermissionCacheKey(request.user_id, request.principal_type,
                       request.resource_id, request.action)

---------------------------------------------------------------------------
(* Authorization engine: the handler *)

GetEntityOrAny(ents, entity_id) ==
    IF \E e \in ents : e.id = entity_id
    THEN {e \in ents : e.id = entity_id} ELSE ents
\* session.get(Entity, id): the set holding the row, empty when absent
GetEntity(ents, entity_id) == {e \in ents : e.id = entity_id}

\* authorize lines 45-73: load the entity, walk the lineage, read the clock,
\* probe the cache; a hit returns the cached value
AuthorizeBegin(p, request) ==
    /\ pc[p] = "idle"
    /\ req' = [req EXCEPT ![p] = [op |-> "authorize", request |-> request]]
    /\ LET entity == GetEntity(entities, request.resource_id)
           cached == CacheGet(store, RequestKey(request))
       IN IF entity = {}
          THEN /\ pc' = [pc EXCEPT ![p] = "rollback"]
               /\ ret' = [ret EXCEPT ![p] = Raised("EntityNotFoundError")]
               /\ loc' = loc
          ELSE LET l == [loc[p] EXCEPT
                            !.entity = entity,
                            !.lineage = CollectEntityLineageIds(entities,
                                            request.resource_id),
                            !.now = now]
               IN IF cached # {}
                  THEN /\ pc' = [pc EXCEPT ![p] = "commit"]
                       /\ ret' = [ret EXCEPT ![p] =
                            Returned("cached", CHOOSE v \in cached : TRUE)]
                       /\ loc' = [loc EXCEPT ![p] = l]
                  ELSE /\ pc' = [pc EXCEPT ![p] = "evaluate"]
                       /\ ret' = ret
                       /\ loc' = [loc EXCEPT ![p] = l]
    /\ UNCHANGED <<eventVars, backend,
                   now, dialect, entities, roles, assignments, ledger, store,
                   principalIndex, wr, rowLocks, nextId, lastVerify,
                   tampered, hist>>

AlwaysGrantedDetails(request, authorized) ==
    {<<"action", request.action>>,
     <<"principal_type", request.principal_type>>, <<"authorized", TRUE>>}
\* the details dict of authorize lines 105-109
AuthorizationDetails(request, authorized) ==
    {<<"action", request.action>>,
     <<"principal_type", request.principal_type>>,
     <<"authorized", authorized>>}

\* authorize lines 75-110: run the query, decide, hand the decision to
\* AuditService.record
AuthorizeEvaluate(p) ==
    /\ pc[p] = "evaluate"
    /\ LET request == req[p].request
           entity == CHOOSE e \in loc[p].entity : TRUE
           authorized == Evaluate(VisibleAssignments(p), VisibleRoles(p),
                                  request, entity, loc[p].lineage, loc[p].now)
       IN loc' = [loc EXCEPT
                    ![p].authorized = authorized,
                    ![p].event =
                        RecordArgs("authorization.evaluate", request.user_id,
                            entity.id, entity.type,
                            AuthorizationDetails(request, authorized), now)]
    /\ pc' = [pc EXCEPT ![p] = "lock_tip"]
    /\ UNCHANGED <<eventVars, backend,
                   now, dialect, entities, roles, assignments, ledger, store,
                   principalIndex, req, wr, ret, rowLocks, nextId, lastVerify,
                   tampered, hist>>

\* authorize lines 131-132: cache the decision and return it
AuthorizeCacheSet(p) ==
    /\ pc[p] = "cache_set"
    /\ LET key == RequestKey(req[p].request)
       IN /\ store' = CacheSetStore(store, key, loc[p].authorized)
          /\ principalIndex' = CacheSetIndex(principalIndex, key,
                                             req[p].request.user_id)
    /\ ret' = [ret EXCEPT ![p] = Returned("evaluated", loc[p].authorized)]
    /\ pc' = [pc EXCEPT ![p] = "commit"]
    /\ UNCHANGED <<eventVars, backend,
                   now, dialect, entities, roles, assignments, ledger, req,
                   loc, wr, rowLocks, nextId, lastVerify, tampered, hist>>

---------------------------------------------------------------------------
(* Role and assignment manager *)

\* RoleService._normalize_datetime, as the UTC instant of the result
NormalizeDatetime(value, t) ==
    IF value = <<>> THEN t
    ELSE IF value[1].tz = <<>> THEN value[1].wall
         ELSE UtcIsoformat(value[1])

\* expires_at goes through _normalize_datetime(allow_none=True)
NormalizeOptional(value) ==
    IF value = <<>> THEN <<>> ELSE <<NormalizeDatetime(value, 0)>>

EntityTypeOf(entity) ==
    IF entity = {} THEN NoneVal ELSE (CHOOSE e \in entity : TRUE).type

SameAssignmentSqlNull(a, payload) ==
    /\ a.principal_id = payload.principal_id
    /\ a.principal_type = payload.principal_type
    /\ a.role_id = payload.role_id
    /\ a.entity_id = payload.entity_id /\ payload.entity_id # NoneVal
\* the WHERE clause of assign_role lines 126-135; == None renders IS NULL
SameAssignment(a, payload) ==
    /\ a.principal_id = payload.principal_id
    /\ a.principal_type = payload.principal_type
    /\ a.role_id = payload.role_id
    /\ a.entity_id = payload.entity_id

NeverMismatch(scope_types, entity_type) == FALSE
\* assign_role line 123: the role is scoped and the entity's type is not in
\* its scope_types
ScopeMismatch(scope_types, entity_type) ==
    scope_types # {} /\ entity_type \notin scope_types

\* assign_role lines 116-146: resolve the role, validate the scope, return an
\* identical assignment if there is one, else build the new row
AssignRoleBegin(p, payload) ==
    /\ pc[p] = "idle"
    /\ nextId <= MaxIds
    /\ req' = [req EXCEPT ![p] = [op |-> "assign_role", payload |-> payload]]
    /\ LET role == {r \in VisibleRoles(p) : r.id = payload.role_id}
           entity == IF payload.entity_id = NoneVal THEN {}
                     ELSE {e \in entities : e.id = payload.entity_id}
           existing == {a \in VisibleAssignments(p) : SameAssignment(a, payload)}
           raise(exception) ==
               /\ pc' = [pc EXCEPT ![p] = "rollback"]
               /\ ret' = [ret EXCEPT ![p] = Raised(exception)]
               /\ UNCHANGED <<loc, nextId>>
       IN IF role = {} THEN raise("RoleNotFoundError")
          ELSE IF payload.entity_id # NoneVal /\ entity = {}
          THEN raise("PermissionScopeError")
          ELSE IF /\ payload.entity_id # NoneVal
                  /\ ScopeMismatch((CHOOSE r \in role : TRUE).scope_types,
                                   EntityTypeOf(entity))
          THEN raise("PermissionScopeError")
          ELSE IF existing # {}
          THEN /\ pc' = [pc EXCEPT ![p] = "commit"]
               /\ ret' = [ret EXCEPT ![p] =
                        Returned("assignment", CHOOSE a \in existing : TRUE)]
               /\ UNCHANGED <<loc, nextId>>
          ELSE /\ pc' = [pc EXCEPT ![p] = "assign_flush"]
               /\ ret' = ret
               /\ nextId' = nextId + 1
               /\ loc' = [loc EXCEPT
                    ![p].entity = entity,
                    ![p].assignment =
                        {[id |-> ToString(nextId),
                          principal_id |-> payload.principal_id,
                          principal_type |-> payload.principal_type,
                          entity_id |-> payload.entity_id,
                          role_id |-> payload.role_id,
                          effective_at |->
                              NormalizeDatetime(payload.effective_at, now),
                          expires_at |->
                              NormalizeOptional(payload.expires_at)]}]
    /\ UNCHANGED <<eventVars, backend,
                   now, dialect, entities, roles, assignments, ledger, store,
                   principalIndex, wr, rowLocks, lastVerify, tampered, hist>>

\* uq_role_assignments_principal_role_entity: rows with a NULL entity_id
\* never conflict
ViolatesAssignmentUnique(a, rows) ==
    /\ a.entity_id # NoneVal
    /\ \E r \in rows : r.id # a.id /\ SameAssignment(r, a)

\* assign_role lines 147-163: flush the new row, hand role_assignment.create
\* to AuditService.record
AssignRoleFlush(p) ==
    /\ pc[p] = "assign_flush"
    /\ LET a == CHOOSE x \in loc[p].assignment : TRUE
           pending == UNION {wr[q].newAssign : q \in Procs \ {p}}
       IN /\ ~ViolatesAssignmentUnique(a, pending)
          /\ IF ViolatesAssignmentUnique(a, VisibleAssignments(p))
             THEN /\ pc' = [pc EXCEPT ![p] = "rollback"]
                  /\ ret' = [ret EXCEPT ![p] = Raised("RoleServiceError")]
                  /\ UNCHANGED <<wr, loc>>
             ELSE /\ pc' = [pc EXCEPT ![p] = "lock_tip"]
                  /\ ret' = ret
                  /\ wr' = [wr EXCEPT ![p].newAssign = @ \cup {a}]
                  /\ loc' = [loc EXCEPT ![p].event =
                        RecordArgs("role_assignment.create", req[p].payload.actor_id,
                            a.entity_id, EntityTypeOf(loc[p].entity),
                            {<<"role_id", a.role_id>>,
                             <<"principal_id", a.principal_id>>,
                             <<"principal_type", a.principal_type>>},
                            now)]
    /\ UNCHANGED <<eventVars, backend,
                   now, dialect, entities, roles, assignments, ledger, store,
                   principalIndex, req, rowLocks, nextId, lastVerify,
                   tampered, hist>>

\* revoke_assignment lines 190-206: load the row, delete and flush it, hand
\* role_assignment.delete to AuditService.record; the delete waits for an
\* uncommitted delete of the same row
RevokeAssignmentBegin(p, assignment_id, actor_id) ==
    /\ pc[p] = "idle"
    /\ req' = [req EXCEPT ![p] = [op |-> "revoke_assignment",
                                  assignment_id |-> assignment_id]]
    /\ LET assignment == {a \in VisibleAssignments(p) : a.id = assignment_id}
       IN IF assignment = {}
          THEN /\ pc' = [pc EXCEPT ![p] = "rollback"]
               /\ ret' = [ret EXCEPT ![p] = Raised("RoleServiceError")]
               /\ UNCHANGED <<loc, wr>>
          ELSE LET a == CHOOSE x \in assignment : TRUE
                   entity == {e \in entities : e.id = a.entity_id}
               IN /\ \A q \in Procs \ {p} : a \notin wr[q].delAssign
                  /\ pc' = [pc EXCEPT ![p] = "lock_tip"]
                  /\ ret' = ret
                  /\ wr' = [wr EXCEPT ![p].delAssign = @ \cup {a}]
                  /\ loc' = [loc EXCEPT
                        ![p].assignment = assignment,
                        ![p].event =
                            RecordArgs("role_assignment.delete", actor_id,
                                a.entity_id, EntityTypeOf(entity),
                                {<<"assignment_id", assignment_id>>}, now)]
    /\ UNCHANGED <<eventVars, backend,
                   now, dialect, entities, roles, assignments, ledger, store,
                   principalIndex, rowLocks, nextId, lastVerify, tampered,
                   hist>>

\* assign_role line 172 / revoke_assignment lines 211-212:
\* cache.invalidate_for_principal, then the handler returns
InvalidatePrincipal(p) ==
    /\ pc[p] = "invalidate_principal"
    /\ LET a == CHOOSE x \in loc[p].assignment : TRUE
       IN /\ store' = InvalidatedStore(store, principalIndex, a.principal_id)
          /\ principalIndex' = InvalidatedIndex(principalIndex, a.principal_id)
          /\ loc' = [loc EXCEPT ![p].wasGranted =
                        {c.key : c \in {x \in store :
                            x.value /\ x.key[1] = a.principal_id}}]
          /\ ret' = [ret EXCEPT ![p] =
                        IF req[p].op = "assign_role"
                        THEN Returned("assignment", a)
                        ELSE Returned("None", NoneVal)]
    /\ pc' = [pc EXCEPT ![p] = "commit"]
    /\ UNCHANGED <<eventVars, backend,
                   now, dialect, entities, roles, assignments, ledger, req,
                   wr, rowLocks, nextId, lastVerify, tampered, hist>>

NeverConflicts(role, rows) == FALSE
\* uq_roles_name against a row set
ViolatesRoleUnique(role, rows) == \E r \in rows : r.name = role.name

\* create_role lines 55-75: build the role with its permissions, flush it
\* (RoleConflictError on a duplicate name), hand role.create to
\* AuditService.record; the role's uuid is written as its unique name
CreateRoleBegin(p, payload, actor_id) ==
    /\ pc[p] = "idle"
    /\ req' = [req EXCEPT ![p] = [op |-> "create_role", payload |-> payload]]
    /\ LET role == [id |-> payload.name, name |-> payload.name,
                    description |-> payload.description,
                    scope_types |-> payload.scope_types,
                    permissions |-> payload.permissions]
           pending == UNION {wr[q].newRoles : q \in Procs \ {p}}
       IN /\ ~ViolatesRoleUnique(role, pending)
          /\ IF ViolatesRoleUnique(role, VisibleRoles(p))
             THEN /\ pc' = [pc EXCEPT ![p] = "rollback"]
                  /\ ret' = [ret EXCEPT ![p] = Raised("RoleConflictError")]
                  /\ UNCHANGED <<wr, loc>>
             ELSE /\ pc' = [pc EXCEPT ![p] = "lock_tip"]
                  /\ ret' = [ret EXCEPT ![p] = Returned("role", role)]
                  /\ wr' = [wr EXCEPT ![p].newRoles = @ \cup {role}]
                  /\ loc' = [loc EXCEPT ![p].event =
                        RecordArgs("role.create", actor_id, NoneVal, NoneVal,
                            {<<"role_id", role.id>>,
                             <<"permissions", payload.permissions>>},
                            now)]
    /\ UNCHANGED <<eventVars, backend,
                   now, dialect, entities, roles, assignments, ledger, store,
                   principalIndex, rowLocks, nextId, lastVerify, tampered,
                   hist>>

\* a RoleUpdate field is <<>> when unset and <<value>> when supplied
\* a list field of RoleUpdate sent as an explicit null
NoneList == {NoneVal}

KeepsCurrent(current, field) == current
\* update_role lines 87-88: description, when the patch carries the key
Patched(current, field) == IF field = <<>> THEN current ELSE field[1]

\* update_role lines 89-90: updates["scope_types"] or []
PatchedScopeTypes(current, field) ==
    IF field = <<>> THEN current
    ELSE IF field[1] = NoneList THEN {} ELSE field[1]

\* update_role lines 91-92: permissions are replaced only when the key is
\* present and its value is not None
PatchedPermissions(current, field) ==
    IF field = <<>> \/ field[1] = NoneList THEN current ELSE field[1]

\* update_role lines 84-103: apply the supplied fields, flush, hand
\* role.update to AuditService.record; the UPDATE waits for an uncommitted
\* write of the same row
UpdateRoleBegin(p, role_id, updates, actor_id) ==
    /\ pc[p] = "idle"
    /\ req' = [req EXCEPT ![p] = [op |-> "update_role", role_id |-> role_id,
                                  updates |-> updates]]
    /\ LET found == {r \in VisibleRoles(p) : r.id = role_id}
       IN IF found = {}
          THEN /\ pc' = [pc EXCEPT ![p] = "rollback"]
               /\ ret' = [ret EXCEPT ![p] = Raised("RoleNotFoundError")]
               /\ UNCHANGED <<wr, loc>>
          ELSE LET old == CHOOSE r \in found : TRUE
                   role == [old EXCEPT
                        !.description = Patched(@, updates.description),
                        !.scope_types =
                            PatchedScopeTypes(@, updates.scope_types),
                        !.permissions =
                            PatchedPermissions(@, updates.permissions)]
               IN /\ \A q \in Procs \ {p} :
                        \A u \in wr[q].updRoles \cup wr[q].newRoles :
                            u.id # role_id
                  /\ pc' = [pc EXCEPT ![p] = "lock_tip"]
                  /\ ret' = [ret EXCEPT ![p] = Returned("role", role)]
                  /\ wr' = [wr EXCEPT
                        ![p].updRoles = {u \in @ : u.id # role_id} \cup {role}]
                  /\ loc' = [loc EXCEPT ![p].event =
                        RecordArgs("role.update", actor_id, NoneVal, NoneVal,
                            {<<"role_id", role.id>>, <<"changes", updates>>},
                            now)]
    /\ UNCHANGED <<eventVars, backend,
                   now, dialect, entities, roles, assignments, ledger, store,
                   principalIndex, rowLocks, nextId, lastVerify, tampered,
                   hist>>

\* create_role line 80 / update_role line 108: cache.invalidate(), then the
\* handler returns the role
InvalidateAll(p) ==
    /\ pc[p] = "invalidate_all"
    /\ store' = ClearedStore(store)
    /\ principalIndex' = ClearedIndex(principalIndex)
    /\ pc' = [pc EXCEPT ![p] = "commit"]
    /\ UNCHANGED <<eventVars, backend,
                   now, dialect, entities, roles, assignments, ledger, req,
                   loc, wr, ret, rowLocks, nextId, lastVerify, tampered, hist>>

---------------------------------------------------------------------------
(* Entity registry: src/app/services/entities.py *)

\* update lines 85-112 with parent_id in the payload: get the entity
\* (EntityNotFoundError when absent), set parent_id, flush, hand
\* entity.update to AuditService.record; the permission cache is not
\* touched. The UPDATE waits for an uncommitted write of the same row.
UpdateEntity(p, entity_id, parent_id, actor_id) ==
    /\ pc[p] = "idle"
    /\ req' = [req EXCEPT ![p] = [op |-> "update_entity",
                                  entity_id |-> entity_id,
                                  parent_id |-> parent_id]]
    /\ LET found == {e \in entities : e.id = entity_id}
       IN IF found = {}
          THEN /\ pc' = [pc EXCEPT ![p] = "rollback"]
               /\ ret' = [ret EXCEPT ![p] = Raised("EntityNotFoundError")]
               /\ UNCHANGED <<wr, loc>>
          ELSE LET old == CHOOSE e \in found : TRUE
                   entity == [old EXCEPT !.parent_id = parent_id]
               IN /\ \A q \in Procs \ {p} :
                        \A u \in wr[q].updEntities : u.id # entity_id
                  /\ pc' = [pc EXCEPT ![p] = "lock_tip"]
                  /\ ret' = [ret EXCEPT ![p] = Returned("entity", entity)]
                  /\ wr' = [wr EXCEPT ![p].updEntities = {entity}]
                  /\ loc' = [loc EXCEPT ![p].event =
                        RecordArgs("entity.update", actor_id, entity.id,
                            entity.type, {<<"changes.parent_id", parent_id>>},
                            now)]
    /\ UNCHANGED <<eventVars, backend,
                   now, dialect, entities, roles, assignments, ledger, store,
                   principalIndex, rowLocks, nextId, lastVerify, tampered,
                   hist>>

\* an entities row deleted by SQL outside the services: the foreign keys
\* set the children's parent_id to NULL (entity.py line 54) and delete the
\* role assignments made at the entity (role_assignment.py line 32); the
\* permission cache is not told
DropEntity(entity_id) ==
    /\ GetEntity(entities, entity_id) # {}
    /\ entities' =
            {IF e.parent_id = entity_id THEN [e EXCEPT !.parent_id = NoneVal]
             ELSE e : e \in entities \ GetEntity(entities, entity_id)}
    /\ assignments' = {a \in assignments : a.entity_id # entity_id}
    /\ UNCHANGED <<eventVars, backend,
                   now, dialect, roles, ledger, store, principalIndex, pc,
                   req, loc, wr, ret, rowLocks, nextId, lastVerify, tampered,
                   hist>>

\* the wall clock advances
Tick ==
    /\ now < MaxTime
    /\ now' = now + 1
    /\ UNCHANGED <<eventVars, backend,
                   dialect, entities, roles, assignments, ledger, store,
                   principalIndex, pc, req, loc, wr, ret, rowLocks, nextId,
                   lastVerify, tampered, hist>>

---------------------------------------------------------------------------
(* Events engine: src/app/events_engine *)

\* platform_events rows a statement of request p sees
VisibleEvents(p) == platformEvents \cup wr[p].newEvents

NeverFound(rows, request) == {}
\* ingest lines 36-41: the deduplication SELECT by (source, correlation_id),
\* skipped when the request carries no correlation_id
ExistingEvents(rows, request) ==
    IF request.correlation_id = NoneVal THEN {}
    ELSE {e \in rows : /\ e.source = request.source
                       /\ e.correlation_id = request.correlation_id}

\* EventEnvelope built at dispatcher.py lines 48-56: a fresh event_id,
\* occurred_at defaulting to the clock (service.py line 54)
EventEnvelope(event_id, request, t) ==
    [event_id |-> event_id,
     event_type |-> request.event_type,
     source |-> request.source,
     correlation_id |-> request.correlation_id,
     occurred_at |-> IF request.occurred_at = <<>> THEN t
                     ELSE request.occurred_at[1],
     schema_version |-> request.schema_version,
     payload |-> request.payload]

\* PlatformEvent(...) at dispatcher.py lines 58-67; the delivery columns
\* take their defaults (platform_event.py lines 44-50)
PlatformEventRow(envelope) ==
    [event_id |-> envelope.event_id,
     event_type |-> envelope.event_type,
     source |-> envelope.source,
     occurred_at |-> envelope.occurred_at,
     correlation_id |-> envelope.correlation_id,
     schema_version |-> envelope.schema_version,
     payload |-> envelope.payload,
     delivery_state |-> "pending",
     delivery_attempts |-> 0,
     last_error |-> NoneVal]

\* ingest lines 36-54 and publish_event lines 48-69: a stored event with
\* the request's (source, correlation_id) is returned as it is; otherwise
\* the envelope and the record are built, session.add(record) and
\* session.flush() write the row; the fresh event_id cannot collide with a
\* stored one, and no other unique index covers the table
IngestBegin(p, request) ==
    /\ pc[p] = "idle"
    /\ req' = [req EXCEPT ![p] = [op |-> "ingest", request |-> request]]
    /\ LET existing == ExistingEvents(VisibleEvents(p), request)
           envelope == EventEnvelope(ToString(nextEventId), request, now)
       IN IF existing # {}
          THEN /\ \E e \in existing :
                    ret' = [ret EXCEPT ![p] = Returned("event", e)]
               /\ pc' = [pc EXCEPT ![p] = "commit"]
               /\ UNCHANGED <<loc, wr, nextEventId>>
          ELSE /\ nextEventId <= MaxEvents
               /\ pc' = [pc EXCEPT ![p] = "publish"]
               /\ ret' = ret
               /\ nextEventId' = nextEventId + 1
               /\ loc' = [loc EXCEPT ![p].envelope = {envelope}]
               /\ wr' = [wr EXCEPT ![p].newEvents =
                            @ \cup {PlatformEventRow(envelope)}]
    /\ UNCHANGED <<platformEvents, published, handled, queue, redis, backend,
                   now, dialect, entities, roles, assignments, ledger, store,
                   principalIndex, rowLocks, nextId, lastVerify,
                   tampered, hist>>

DispatchesAnyway(delivered) == "handle_event"
\* where ingest continues after publisher.publish: on to the workflow
\* dispatch, or out with EventServiceError (service.py lines 66-71)
AfterPublish(delivered) == IF delivered THEN "handle_event" ELSE "rollback"

\* publish_event line 71 / ingest lines 55-71: the transport publisher is
\* called with the envelope; NullEventPublisher returns, SnsEventPublisher
\* returns or raises (publisher.py lines 41-63)
PublishEnvelope(p) ==
    /\ pc[p] = "publish"
    /\ LET envelope == CHOOSE e \in loc[p].envelope : TRUE
       IN \E delivered \in BOOLEAN :
            /\ published' = published \cup
                    {[envelope |-> envelope, delivered |-> delivered]}
            /\ pc' = [pc EXCEPT ![p] = AfterPublish(delivered)]
            /\ ret' = [ret EXCEPT ![p] =
                    IF delivered THEN ret[p]
                    ELSE Raised("EventServiceError")]
    /\ UNCHANGED <<platformEvents, handled, nextEventId, queue, redis, backend,
                   now, dialect, entities, roles, assignments, ledger, store,
                   principalIndex, req, loc, wr, rowLocks, nextId,
                   lastVerify, tampered, hist>>

SurfacesFailure(started) == IF started THEN "commit" ELSE "rollback"
\* ingest lines 82-91: whatever handle_event does, the handler goes on
AfterHandleEvent(started) == "commit"

\* ingest lines 82-209: the orchestrator is handed the stored record and
\* its failure is logged; the document.verified signal (lines 94-150) goes
\* to Temporal and its failure is logged; the property.activated block
\* (lines 153-207) calls EntityService.get_entity, which EntityService does
\* not define, and the AttributeError is logged; the record is returned
HandleEvent(p) ==
    /\ pc[p] = "handle_event"
    /\ LET envelope == CHOOSE e \in loc[p].envelope : TRUE
           record == PlatformEventRow(envelope)
       IN /\ \E started \in BOOLEAN :
                /\ handled' = handled \cup
                        {[event_id |-> record.event_id, started |-> started]}
                /\ pc' = [pc EXCEPT ![p] = AfterHandleEvent(started)]
          /\ ret' = [ret EXCEPT ![p] = Returned("event", record)]
    /\ UNCHANGED <<platformEvents, published, nextEventId, queue, redis, backend,
                   now, dialect, entities, roles, assignments, ledger, store,
                   principalIndex, req, loc, wr, rowLocks, nextId,
                   lastVerify, tampered, hist>>

---------------------------------------------------------------------------
(* End of a request; verifier; clock *)

\* register_exception_handlers: the status answered for an exception is
\* that of the handler registered for its class or nearest base class
StatusCode(exception) ==
    CASE exception \in {"EntityNotFoundError", "RoleNotFoundError"} -> 404
      [] exception \in {"EntityConflictError", "RoleConflictError"} -> 409
      [] exception \in {"PermissionScopeError", "RoleServiceError"} -> 400
      [] OTHER -> 500

\* observation: could some assignment in asgs grant the cached key, leaving
\* validity windows aside
CouldGrant(asgs, rls, key) ==
    \E a \in asgs, r \in rls, e \in entities :
        /\ e.id = key[3]
        /\ a.principal_id = key[1] /\ a.principal_type = key[2]
        /\ r.id = a.role_id /\ key[4] \in r.permissions
        /\ (r.scope_types = {} \/ e.type \in r.scope_types)
        /\ \/ a.entity_id = NoneVal
           \/ \E i \in 1..Len(CollectEntityLineageIds(entities, e.id)) :
                CollectEntityLineageIds(entities, e.id)[i] = a.entity_id

\* observation: hist.mustDeny holds the keys that were cached as granted when
\* a revoke removed their only grant, until the key is asked again or a
\* grant may have been added; hist.evaluated counts the authorize calls that
\* returned an evaluated decision and committed
DecisionsAfterCommit(p) ==
    CASE req[p].op = "revoke_assignment" ->
            [hist EXCEPT !.mustDeny = @ \cup
                {k \in loc[p].wasGranted :
                    /\ CouldGrant(loc[p].assignment, roles, k)
                    /\ ~CouldGrant(assignments \ wr[p].delAssign, roles, k)}]
      [] req[p].op \in {"create_role", "update_role", "update_entity"} ->
            [hist EXCEPT !.mustDeny = {}]
      [] req[p].op = "assign_role" /\ wr[p].newAssign # {} ->
            [hist EXCEPT !.mustDeny = {}]
      [] req[p].op = "authorize" ->
            [hist EXCEPT !.mustDeny = @ \ {RequestKey(req[p].request)},
                         !.evaluated = IF ret[p].kind = "evaluated"
                                       THEN @ + 1 ELSE @]
      [] OTHER -> hist

\* hist.recorded counts the record / record_event calls that returned an
\* entry and committed
HistAfterCommit(p) ==
    [DecisionsAfterCommit(p) EXCEPT !.recorded =
        IF wr[p].entries # {} \/ ret[p].kind = "entry" THEN @ + 1 ELSE @]

ReleaseLocks(p) == {l \in rowLocks : l[2] # p}

\* audit_logs after COMMIT: the session only ever adds AuditLog rows
\* (audit.py line 108), it never updates or deletes one
DropsOldestEntry(rows, new) ==
    {e \in rows : new = {} \/ e.sequence # 1} \cup new
LosesEntries(rows, new) == rows
CommittedEntries(rows, new) == rows \cup new

\* the consumer loop after self._handler(payload) returned: the message
\* whose receipt handle the consumer holds goes on to delete_message
HandlerReturned(p) ==
    IF queue.receipt[p] = NoEvent THEN queue
    ELSE [queue EXCEPT !.returned[p] = TRUE]

\* get_session / session_scope: session.commit() after the handler returned
Commit(p) ==
    /\ pc[p] = "commit"
    /\ ledger' = CommittedEntries(ledger, wr[p].entries)
    /\ assignments' = (assignments \ wr[p].delAssign) \cup wr[p].newAssign
    /\ roles' = {r \in roles : \A u \in wr[p].updRoles : u.id # r.id}
                    \cup wr[p].updRoles \cup wr[p].newRoles
    /\ entities' = {e \in entities : \A u \in wr[p].updEntities : u.id # e.id}
                    \cup wr[p].updEntities
    /\ rowLocks' = ReleaseLocks(p)
    /\ pc' = [pc EXCEPT ![p] = "idle"]
    /\ req' = [req EXCEPT ![p] = NoReq]
    /\ loc' = [loc EXCEPT ![p] = EmptyLoc]
    /\ wr' = [wr EXCEPT ![p] = EmptyWr]
    /\ ret' = [ret EXCEPT ![p] = NoRet]
    /\ hist' = HistAfterCommit(p)
    /\ platformEvents' = platformEvents \cup wr[p].newEvents
    /\ queue' = HandlerReturned(p)
    /\ UNCHANGED <<published, handled, nextEventId, redis, backend,
                   now, dialect, store, principalIndex, nextId,
                   lastVerify, tampered>>

\* get_session / session_scope: session.rollback() when the handler raised
Rollback(p) ==
    /\ pc[p] = "rollback"
    /\ rowLocks' = ReleaseLocks(p)
    /\ pc' = [pc EXCEPT ![p] = "idle"]
    /\ req' = [req EXCEPT ![p] = NoReq]
    /\ loc' = [loc EXCEPT ![p] = EmptyLoc]
    /\ wr' = [wr EXCEPT ![p] = EmptyWr]
    /\ ret' = [ret EXCEPT ![p] = NoRet]
    /\ UNCHANGED <<eventVars, backend,
                   now, dialect, entities, roles, assignments, ledger, store,
                   principalIndex, nextId, lastVerify, tampered, hist>>

\* AuditVerifier.verify run in its own read-only session
RunVerify(start_sequence, end_sequence) ==
    /\ lastVerify' = [ran |-> TRUE, start_sequence |-> start_sequence,
                      end_sequence |-> end_sequence,
                      rows |-> Cardinality(ledger), calls |-> hist.recorded,
                      tampered |-> tampered,
                      result |-> Verify(ledger, start_sequence, end_sequence)]
    /\ UNCHANGED <<eventVars, backend,
                   now, dialect, entities, roles, assignments, ledger, store,
                   principalIndex, pc, req, loc, wr, ret, rowLocks, nextId,
                   tampered, hist>>

---------------------------------------------------------------------------
(* Inputs and initial states *)

SeedEntities ==
    {[id |-> "e1", type |-> "issuer", parent_id |-> NoneVal],
     [id |-> "e2", type |-> "offering", parent_id |-> "e1"],
     [id |-> "e3", type |-> "investor", parent_id |-> NoneVal]}

\* audit events delivered by the queue: with and without an idempotency
\* key, naive and offset timestamps
ExternalEvents ==
    {AuditEvent(id, "upstream", "ext.a", NoneVal, "service", NoneVal,
                NoneVal, NoneVal, {<<"step", "1">>}, Naive(1)) :
        id \in {NoneVal, "x1"}}
    \cup {AuditEvent("x1", "upstream", "ext.b", NoneVal, "service", NoneVal,
                     NoneVal, NoneVal, {<<"step", "1">>}, Aware(3, 1))}

VerifyBounds == {<<>>} \cup {<<n>> : n \in 1..MaxSeq}

InitCommon ==
    /\ now = 0
    /\ store = {}
    /\ principalIndex = {}
    /\ pc = [p \in Procs |-> "idle"]
    /\ req = [p \in Procs |-> NoReq]
    /\ loc = [p \in Procs |-> EmptyLoc]
    /\ wr = [p \in Procs |-> EmptyWr]
    /\ ret = [p \in Procs |-> NoRet]
    /\ rowLocks = {}
    /\ nextId = 1
    /\ lastVerify = [ran |-> FALSE,
                     start_sequence |-> <<>>, end_sequence |-> <<>>,
                     rows |-> 0, calls |-> 0, tampered |-> {},
                     result |-> Verify({}, <<>>, <<>>)]
    /\ tampered = {}
    /\ hist = [mustDeny |-> {}, evaluated |-> 0, recorded |-> 0]
    /\ platformEvents = {}
    /\ published = {}
    /\ handled = {}
    /\ nextEventId = 1
    /\ redis = [perm |-> {}, index |-> {}, registry |-> {}]
    /\ queue = [pending |-> {}, sent |-> {},
                receipt |-> [p \in Procs |-> NoEvent],
                returned |-> [p \in Procs |-> FALSE]]

\* the store after construction: no roles, no assignments, empty ledger
InitEmpty ==
    /\ InitCommon
    /\ backend = "memory"
    /\ dialect \in Dialects
    /\ entities = SeedEntities
    /\ roles = {}
    /\ assignments = {}
    /\ ledger = {}

\* requests that run one after another are served by the first worker
Workers(sequential) == IF sequential THEN {1} ELSE Procs

\* record calls are admitted while fewer than MaxCalls have returned
CallsLeft == hist.recorded < MaxCalls

AuditSteps(p) ==
    \/ LockChainTip(p)
    \/ InsertEntry(p)
    \/ Commit(p)
    \/ Rollback(p)

\* the audit queue consumers and the verifier on an initially empty ledger
NextLedger ==
    \/ \E p \in Procs : \E event \in ExternalEvents :
            Room(MaxSeq) /\ CallsLeft /\ RecordEventBegin(p, event)
    \/ \E p \in Procs : AuditSteps(p)
    \/ RunVerify(<<>>, <<>>)

SpecLedger == InitEmpty /\ [][NextLedger]_vars

\* a row of audit_logs is rewritten outside the ledger's operations (direct
\* SQL, as test_audit_chain_tampering_detected does): one hash column of one
\* row takes a different value
BogusHash == <<GENESIS_HASH>>

TamperValues == {GENESIS_HASH, BogusHash} \cup {e.entry_hash : e \in ledger}

Tamper(k, column, value) ==
    /\ tampered = {}
    /\ \E e \in ledger :
        /\ e.sequence = k
        /\ IF column = "entry_hash"
           THEN /\ value # e.entry_hash
                /\ ledger' = (ledger \ {e}) \cup {[e EXCEPT !.entry_hash = value]}
           ELSE /\ value # e.previous_hash
                /\ ledger' = (ledger \ {e}) \cup {[e EXCEPT !.previous_hash = value]}
    /\ tampered' = {k}
    /\ UNCHANGED <<eventVars, backend,
                   now, dialect, entities, roles, assignments, store,
                   principalIndex, pc, req, loc, wr, ret, rowLocks, nextId,
                   lastVerify, hist>>

TamperedEvents ==
    {e \in ExternalEvents : e.action = "ext.a" /\ e.event_id = NoneVal}

\* one appender at a time, one tampering, verification over any window
NextTamper ==
    \/ \E p \in Workers(TRUE) : \E event \in TamperedEvents :
            /\ Room(MaxSeq) /\ InFlight = {}
            /\ RecordEventBegin(p, event)
    \/ \E p \in Procs : LockChainTip(p) \/ InsertEntry(p) \/ Commit(p)
    \/ \E k \in 1..MaxSeq, column \in {"entry_hash", "previous_hash"} :
            \E value \in TamperValues : Tamper(k, column, value)
    \/ \E s \in VerifyBounds, e \in VerifyBounds :
            tampered # {} /\ RunVerify(s, e)

SpecTamper == InitEmpty /\ [][NextTamper]_vars

---------------------------------------------------------------------------
(* Properties of the audit ledger *)

\* C1: the committed ledger, ordered by sequence, starts at sequence 1 with
\* the genesis hash as previous_hash, and every later entry has the next
\* sequence number and the previous entry's entry_hash as previous_hash
ChainContiguous ==
    LET entries == OrderBySequence(ledger)
    IN /\ Len(entries) = Cardinality(ledger)
       /\ \A i \in 1..Len(entries) :
            IF i = 1
            THEN /\ entries[i].sequence = 1
                 /\ entries[i].previous_hash = GENESIS_HASH
            ELSE /\ entries[i].sequence = entries[i - 1].sequence + 1
                 /\ entries[i].previous_hash = entries[i - 1].entry_hash

\* three chained entries written by three different callers
MixedCallersChain ==
    /\ Cardinality(ledger) >= 3
    /\ \E a \in ledger, b \in ledger, c \in ledger :
        /\ a.action = "role.create"
        /\ b.action = "authorization.evaluate"
        /\ c.action \in {"ext.a", "entity.update"}

UnboundedVerify ==
    /\ lastVerify.ran
    /\ lastVerify.start_sequence = <<>>
    /\ lastVerify.end_sequence = <<>>
    /\ lastVerify.tampered = {}

\* C2 as stated: after N successful record calls on an initially empty
\* ledger, verify() without bounds returns checked = N, start_sequence = 1
\* and end_sequence = N
VerifyReportsCalls ==
    UnboundedVerify
        => lastVerify.result =
                VerificationResult(lastVerify.calls, 1, lastVerify.calls)

\* C2 amended: verify() without bounds on an untouched ledger holding N
\* entries succeeds with checked = N, start_sequence = 1 and end_sequence = N
\* when N >= 1 and with checked = 0, start_sequence = 0 and end_sequence = 0
\* when N = 0; N is at most the number of successful record calls, a call
\* that replays an existing event_id adding no entry
VerifyReportsAll ==
    UnboundedVerify
        => /\ lastVerify.result =
                IF lastVerify.rows >= 1
                THEN VerificationResult(lastVerify.rows, 1, lastVerify.rows)
                ELSE VerificationResult(0, 0, 0)
           /\ lastVerify.rows <= lastVerify.calls

VerifiedSeveral ==
    /\ UnboundedVerify
    /\ lastVerify.rows >= 2
    /\ lastVerify.calls > lastVerify.rows
    /\ lastVerify.result.ok
    /\ lastVerify.result.checked = lastVerify.rows

InRange(k, start_sequence, end_sequence) ==
    /\ start_sequence = <<>> \/ k >= start_sequence[1]
    /\ end_sequence = <<>> \/ k <= end_sequence[1]

\* C3: once one hash column of entry k holds a different value, verify over
\* any range containing k raises a verification error naming sequence k
TamperDetected ==
    \A k \in lastVerify.tampered :
        InRange(k, lastVerify.start_sequence, lastVerify.end_sequence)
            => /\ ~lastVerify.result.ok
               /\ lastVerify.result.sequence = k
               /\ lastVerify.result.checked = 0

TamperedInsideChainVerified ==
    /\ lastVerify.tampered = {2}
    /\ lastVerify.rows >= 3
    /\ lastVerify.start_sequence = <<2>>
    /\ ~lastVerify.result.ok
    /\ lastVerify.result.sequence = 2

\* C4: record_event with an event_id that already has an entry returns that
\* entry and adds nothing: the ledger and its maximum sequence are unchanged
\* by the call and by its commit, whatever the other fields of the event are
IdempotentRecord ==
    [][\A p \in Procs :
        /\ (/\ pc[p] = "idle" /\ pc'[p] # "idle"
            /\ req'[p].op = "record_event"
            /\ req'[p].event.event_id # NoneVal
            /\ \E e \in ledger : e.event_id = req'[p].event.event_id)
                => /\ pc'[p] = "commit"
                   /\ ret'[p].kind = "entry"
                   /\ ret'[p].value \in ledger
                   /\ ret'[p].value.event_id = req'[p].event.event_id
                   /\ wr'[p] = EmptyWr
                   /\ ledger' = ledger
        /\ (/\ pc[p] = "commit" /\ pc'[p] = "idle"
            /\ req[p].op = "record_event"
            /\ ret[p].value \in ledger)
                => /\ ledger' = ledger
                   /\ MaxSequence(ledger') = MaxSequence(ledger)
      ]_vars

ReplayedWithOtherFields ==
    \E p \in Procs :
        /\ pc[p] = "commit"
        /\ req[p].op = "record_event"
        /\ wr[p].entries = {}
        /\ ret[p].value \in ledger
        /\ ret[p].value.action # req[p].event.action

\* an appender that has read the tip and not yet committed its entry
Appending(p) == pc[p] = "insert" \/ wr[p].entries # {}

\* C5: on a lock-supporting store no two concurrent appenders hold the same
\* chain tip, whether the ledger is empty or not
NoSharedTip ==
    dialect # "sqlite" =>
        \A p \in Procs, q \in Procs :
            (p # q /\ Appending(p) /\ Appending(q))
                => loc[p].tip.sequence # loc[q].tip.sequence

---------------------------------------------------------------------------
(* Authorization: inputs, initial states, specifications *)

RECURSIVE ChainFrom(_, _, _)
\* the ledger after AuditService.record has run for each event in turn
ChainFrom(d, rows, events) ==
    IF events = <<>> THEN rows
    ELSE LET tip == ChainTip(rows)
         IN ChainFrom(d,
                rows \cup {BuildAuditEntry(d, tip.sequence, tip.entry_hash,
                                           events[1])},
                Tail(events))

RoleCreateEvent(role) ==
    RecordArgs("role.create", NoneVal, NoneVal, NoneVal,
               {<<"role_id", role.id>>, <<"permissions", role.permissions>>}, 0)

AssignmentCreateEvent(a) ==
    RecordArgs("role_assignment.create", NoneVal, a.entity_id,
               EntityTypeOf({e \in SeedEntities : e.id = a.entity_id}),
               {<<"role_id", a.role_id>>, <<"principal_id", a.principal_id>>,
                <<"principal_type", a.principal_type>>}, 0)

RoleUser ==
    [id |-> "r1", name |-> "r1", description |-> "d", scope_types |-> {},
     permissions |-> {"doc:upload"}]
RoleOffering ==
    [id |-> "r2", name |-> "r2", description |-> "d",
     scope_types |-> {"offering"},
     permissions |-> {"doc:upload", "doc:download"}]

Assignment(id, principal_id, principal_type, entity_id, role_id, effective_at, expires_at) ==
    [id |-> id, principal_id |-> principal_id,
     principal_type |-> principal_type, entity_id |-> entity_id,
     role_id |-> role_id, effective_at |-> effective_at,
     expires_at |-> expires_at]

\* after createRole(r1) on PostgreSQL: the state the sequential and the
\* concurrent authorization runs start from
InitSeeded ==
    /\ InitCommon
    /\ backend = "memory"
    /\ dialect = "postgresql"
    /\ entities = SeedEntities
    /\ roles = {RoleUser}
    /\ assignments = {}
    /\ ledger = ChainFrom(dialect, {}, <<RoleCreateEvent(RoleUser)>>)

AuthzRequests ==
    {[user_id |-> u, principal_type |-> "user", action |-> "doc:upload",
      resource_id |-> r] : u \in {"p1"}, r \in {"e1", "e2"}}
        \cup {[user_id |-> "p2", principal_type |-> "user",
               action |-> "doc:upload", resource_id |-> "e1"]}

AssignPayloads ==
    {[principal_id |-> "p1", principal_type |-> "user", role_id |-> "r1",
      entity_id |-> e, effective_at |-> <<>>, expires_at |-> <<>>,
      actor_id |-> NoneVal] : e \in {NoneVal, "e1"}}

RoleUpdates ==
    {[description |-> <<>>, scope_types |-> <<{"offering"}>>,
      permissions |-> <<>>]}

AssignmentIds == {ToString(n) : n \in 1..MaxIds}

AuthzSteps(p) ==
    \/ AuthorizeEvaluate(p)
    \/ AuthorizeCacheSet(p)
    \/ AssignRoleFlush(p)
    \/ InvalidatePrincipal(p)
    \/ InvalidateAll(p)
    \/ AuditSteps(p)

\* requests of the authorization engine and the role manager; sequential
\* means a request starts only when no other is in progress
AuthzBegin(sequential, room) ==
    \E p \in Workers(sequential) :
        /\ sequential => InFlight = {}
        /\ Room(room)
        /\ \/ \E request \in AuthzRequests : AuthorizeBegin(p, request)
           \/ \E payload \in AssignPayloads : AssignRoleBegin(p, payload)
           \/ \E id \in AssignmentIds : RevokeAssignmentBegin(p, id, NoneVal)
           \/ \E u \in RoleUpdates : UpdateRoleBegin(p, "r1", u, NoneVal)

NextSeq ==
    \/ AuthzBegin(TRUE, 1 + MaxOps)
    \/ \E p \in Procs : AuthzSteps(p)

SpecSeq == InitSeeded /\ [][NextSeq]_vars

\* the authorization engine and the role manager with requests overlapping,
\* the clock standing still
NextRace ==
    \/ AuthzBegin(FALSE, 1 + MaxOps)
    \/ \E p \in Procs : AuthzSteps(p)

SpecRace == InitSeeded /\ [][NextRace]_vars

\* every caller of the ledger on a store that starts empty, requests
\* overlapping: role manager, entity registry, authorization engine, audit
\* queue consumer, verifier
RoleCreates ==
    {[name |-> "r1", description |-> "d", scope_types |-> {},
      permissions |-> {"doc:upload"}]}

CoreEvents ==
    {e \in ExternalEvents : e.action = "ext.a" /\ e.event_id = NoneVal}

CoreRequests == {r \in AuthzRequests : r.user_id = "p1" /\ r.resource_id = "e2"}

CorePayloads == {a \in AssignPayloads : a.entity_id = NoneVal}

CoreBegin(p) ==
    \/ \E payload \in RoleCreates : CreateRoleBegin(p, payload, NoneVal)
    \/ \E payload \in CorePayloads : AssignRoleBegin(p, payload)
    \/ \E id \in AssignmentIds : RevokeAssignmentBegin(p, id, NoneVal)
    \/ \E u \in RoleUpdates : UpdateRoleBegin(p, "r1", u, NoneVal)
    \/ \E request \in CoreRequests : AuthorizeBegin(p, request)
    \/ \E parent_id \in {NoneVal, "e3"} :
            UpdateEntity(p, "e2", parent_id, NoneVal)
    \/ \E event \in CoreEvents : RecordEventBegin(p, event)

Next ==
    \/ \E p \in Procs : Room(MaxSeq) /\ CallsLeft /\ CoreBegin(p)
    \/ \E p \in Procs : AuthzSteps(p)
    \/ RunVerify(<<>>, <<>>)

Spec == InitEmpty /\ [][Next]_vars

\* C6: the ledger is append-only; every entry of one state is present and
\* identical in the next, whichever operation of the core takes the step
AppendOnly == [][\A e \in ledger : e \in ledger']_vars

\* the ledger holds more entries than the last verify call saw
LedgerGrew ==
    /\ lastVerify.ran
    /\ lastVerify.rows >= 1
    /\ Cardinality(ledger) > lastVerify.rows

\* the evaluation on a cache miss, over stores holding the two roles and
\* one or two assignments of every shape: principal, principal type, role,
\* global / own / parent / unrelated entity, window before, at and after now
\* the investor created under the offering: a lineage of three
DeepEntities ==
    {[id |-> "e1", type |-> "issuer", parent_id |-> NoneVal],
     [id |-> "e2", type |-> "offering", parent_id |-> "e1"],
     [id |-> "e3", type |-> "investor", parent_id |-> "e2"]}

Windows ==
    {<<eff, exp>> : eff \in 0..MaxTime,
                    exp \in {<<>>} \cup {<<t>> : t \in 1..MaxTime}}

FirstAssignments ==
    {Assignment("1", "p1", "user", e, r, w[1], w[2]) :
        e \in {NoneVal, "e1", "e3"}, r \in {"r1", "r2"}, w \in Windows}
    \cup {Assignment("1", pr[1], pr[2], NoneVal, "r2", 0, <<>>) :
                pr \in {<<"p2", "user">>, <<"p1", "service">>}}

SecondAssignments ==
    {Assignment("2", "p1", "user", "e3", "r2", 0, <<>>)}

EvalRequests ==
    {[user_id |-> "p1", principal_type |-> "user", action |-> a,
      resource_id |-> r] :
        a \in {"doc:upload", "doc:download"}, r \in {"e2", "e3"}}

InitEval ==
    /\ InitCommon
    /\ backend = "memory"
    /\ dialect = "postgresql"
    /\ entities \in {SeedEntities, DeepEntities}
    /\ roles = {RoleUser, RoleOffering}
    /\ \E a1 \in FirstAssignments :
       \E rest \in {<<>>} \cup {<<a>> : a \in SecondAssignments} :
            /\ assignments = {a1} \cup SeqRange(rest)
            /\ ledger = ChainFrom(dialect, {},
                    <<RoleCreateEvent(RoleUser), RoleCreateEvent(RoleOffering),
                      AssignmentCreateEvent(a1)>>
                        \o [i \in 1..Len(rest) |->
                                AssignmentCreateEvent(rest[i])])

NextEval ==
    \/ \E p \in Workers(TRUE) : \E request \in EvalRequests :
            /\ InFlight = {}
            /\ hist.evaluated < MaxEvals
            /\ AuthorizeBegin(p, request)
    \/ \E p \in Procs :
            \/ AuthorizeEvaluate(p)
            \/ LockChainTip(p)
            \/ InsertEntry(p)
            \/ AuthorizeCacheSet(p)
            \/ Commit(p)
    \/ Tick

SpecEval == InitEval /\ [][NextEval]_vars

---------------------------------------------------------------------------
(* Properties of the authorization engine and the cache *)

Decided(p) ==
    /\ pc[p] = "commit"
    /\ req[p].op = "authorize"
    /\ ret[p].kind \in {"cached", "evaluated"}

\* C7: once a revoke has removed the only grant of a key whose decision was
\* cached as granted, the next authorize for that key returns false
RevokeNotMasked ==
    \A p \in Procs :
        (Decided(p) /\ RequestKey(req[p].request) \in hist.mustDeny)
            => ret[p].value = FALSE

DeniedAfterRevoke ==
    \E p \in Procs :
        /\ Decided(p)
        /\ RequestKey(req[p].request) \in hist.mustDeny
        /\ ret[p].kind = "evaluated"
        /\ ret[p].value = FALSE

\* what a fresh evaluation of the engine gives for a cached key on the
\* committed tables
FreshEvaluation(key) ==
    LET request == [user_id |-> key[1], principal_type |-> key[2],
                    resource_id |-> key[3], action |-> key[4]]
        entity == CHOOSE e \in entities : e.id = key[3]
    IN Evaluate(assignments, roles, request, entity,
                CollectEntityLineageIds(entities, key[3]), now)

\* C8: when no request is in progress every cached decision equals a fresh
\* evaluation on the committed roles, assignments and entities
CacheCoherentWhenQuiescent ==
    InFlight = {} => \A c \in store : c.value = FreshEvaluation(c.key)

AuditsOf(rows, request, decision) ==
    {e \in rows :
        /\ e.action = "authorization.evaluate"
        /\ e.actor_id = request.user_id
        /\ e.entity_id = request.resource_id
        /\ <<"action", request.action>> \in e.details
        /\ <<"authorized", decision>> \in e.details}

EvaluateEntries(rows) == {e \in rows : e.action = "authorization.evaluate"}

\* C9 as stated: every authorize call that returns a decision has appended
\* exactly one authorization.evaluate entry carrying the action and the outcome
EveryDecisionAudited ==
    \A p \in Procs :
        Decided(p) =>
            /\ Cardinality(wr[p].entries) = 1
            /\ wr[p].entries = AuditsOf(wr[p].entries, req[p].request,
                                        ret[p].value)

\* C9 amended: a decision reached by evaluation (cache miss) has appended
\* exactly one such entry, a decision answered from the cache has appended
\* none, and the committed authorization.evaluate entries are as many as the
\* evaluated decisions
EvaluatedDecisionAudited ==
    /\ \A p \in Procs :
        Decided(p) =>
            IF ret[p].kind = "evaluated"
            THEN /\ Cardinality(wr[p].entries) = 1
                 /\ wr[p].entries = AuditsOf(wr[p].entries, req[p].request,
                                             ret[p].value)
            ELSE wr[p].entries = {}
    /\ Cardinality(EvaluateEntries(ledger)) = hist.evaluated

GrantAndDenyAudited ==
    /\ \E e \in ledger : <<"authorized", TRUE>> \in e.details
    /\ \E e \in ledger : <<"authorized", FALSE>> \in e.details
    /\ \E p \in Procs : Decided(p) /\ ret[p].kind = "cached"
    /\ hist.evaluated >= 2

RECURSIVE Ancestry(_, _)
\* the resource and every entity reachable from it by parent_id
Ancestry(ents, ids) ==
    LET up == ids \cup
                ({e.parent_id : e \in {x \in ents : x.id \in ids}} \ {NoneVal})
    IN IF up = ids THEN ids ELSE Ancestry(ents, up)

Grants(a, r, request, resource, t) ==
    /\ a.role_id = r.id
    /\ a.principal_id = request.user_id
    /\ a.principal_type = request.principal_type
    /\ a.effective_at <= t
    /\ (a.expires_at = <<>> \/ a.expires_at[1] > t)
    /\ (a.entity_id = NoneVal \/ a.entity_id \in Ancestry(entities, {resource.id}))
    /\ request.action \in r.permissions
    /\ (r.scope_types = {} \/ resource.type \in r.scope_types)

EvaluatedAt(p) ==
    /\ pc[p] = "commit"
    /\ req[p].op = "authorize"
    /\ ret[p].kind = "evaluated"

\* C10: on a cache miss for an existing resource, authorize returns true
\* exactly when some assignment of the principal and principal type is in
\* its window at the call's clock reading, is global or on an entity of the
\* resource's lineage, and has a role that grants the action and whose
\* scope_types is empty or contains the resource's type
EvaluationMatchesAssignments ==
    \A p \in Procs :
        EvaluatedAt(p) =>
            (ret[p].value = TRUE <=>
                \E a \in assignments, r \in roles, resource \in entities :
                    /\ resource.id = req[p].request.resource_id
                    /\ Grants(a, r, req[p].request, resource, loc[p].now))

\* a grant inherited from the parent entity through a role limited to the
\* resource's type, by an assignment that carries an expiry
InheritedScopedGrant ==
    \E p \in Procs :
        /\ EvaluatedAt(p)
        /\ ret[p].value = TRUE
        /\ req[p].request.resource_id = "e2"
        /\ \A a \in assignments :
            a.principal_id = "p1" /\ a.principal_type = "user"
                => a.entity_id = "e1" /\ a.role_id = "r2"
        /\ \E a \in assignments : a.expires_at # <<>>

---------------------------------------------------------------------------
(* Repeated authorize calls over fixed roles and assignments while the    *)
(* clock advances                                                          *)

RoleHierarchy ==
    [id |-> "r3", name |-> "r3", description |-> "d",
     scope_types |-> {"issuer", "offering"}, permissions |-> {"doc:upload"}]

\* one assignment of p1: the unscoped role globally or the scoped role at
\* the issuer, with every validity window
WindowAssignments ==
    {Assignment("1", "p1", "user", g[1], g[2], w[1], w[2]) :
        g \in {<<NoneVal, "r1">>, <<"e1", "r3">>}, w \in Windows}

WindowRequests ==
    {[user_id |-> "p1", principal_type |-> "user", action |-> "doc:upload",
      resource_id |-> r] : r \in {"e2", "e3"}}

InitWindow ==
    /\ InitCommon
    /\ backend = "memory"
    /\ dialect = "postgresql"
    /\ entities \in {SeedEntities, DeepEntities}
    /\ roles = {RoleUser, RoleHierarchy}
    /\ \E a \in WindowAssignments :
            /\ assignments = {a}
            /\ ledger = ChainFrom(dialect, {},
                    <<RoleCreateEvent(RoleUser), RoleCreateEvent(RoleHierarchy),
                      AssignmentCreateEvent(a)>>)

\* authorize calls one after another, the clock, and the removal of the
\* investor's row behind the services
NextWindow ==
    \/ \E p \in Workers(TRUE) : \E request \in WindowRequests :
            InFlight = {} /\ AuthorizeBegin(p, request)
    \/ \E p \in Procs :
            \/ AuthorizeEvaluate(p)
            \/ LockChainTip(p)
            \/ InsertEntry(p)
            \/ AuthorizeCacheSet(p)
            \/ Commit(p)
            \/ Rollback(p)
    \/ InFlight = {} /\ DropEntity("e3")
    \/ Tick

SpecWindow == InitWindow /\ [][NextWindow]_vars

\* an assignment whose validity window contains every clock reading
AlwaysInForce(a) == a.effective_at <= 0 /\ a.expires_at = <<>>

\* the only assignment, held by the caller of p through a scoped role that
\* grants the requested action at an entity
SoleScopedAssignment(p, a, r) ==
    /\ assignments = {a}
    /\ a.principal_id = req[p].request.user_id
    /\ a.principal_type = req[p].request.principal_type
    /\ a.entity_id # NoneVal
    /\ AlwaysInForce(a)
    /\ r.id = a.role_id
    /\ r.scope_types # {}
    /\ req[p].request.action \in r.permissions

\* C11 as stated: with a scoped role assigned at E as the principal's only
\* assignment, authorize is true at every entity whose parent chain reaches
\* E and false at every entity whose lineage does not contain E
ScopedGrantFollowsLineage ==
    \A p \in Procs : \A a \in assignments, r \in roles, resource \in entities :
        (/\ Decided(p)
         /\ SoleScopedAssignment(p, a, r)
         /\ resource.id = req[p].request.resource_id)
            => (ret[p].value = TRUE
                    <=> a.entity_id \in Ancestry(entities, {resource.id}))

\* C11 amended: with a scoped role assigned at E as the principal's only
\* assignment, in force at every call, authorize is true exactly at the
\* entities whose lineage contains E and whose own type is in the role's
\* scope_types; it is false at a descendant of another type and at every
\* entity whose lineage does not contain E
ScopedGrantFollowsLineageAndType ==
    \A p \in Procs : \A a \in assignments, r \in roles, resource \in entities :
        (/\ Decided(p)
         /\ SoleScopedAssignment(p, a, r)
         /\ resource.id = req[p].request.resource_id)
            => (ret[p].value = TRUE
                    <=> /\ a.entity_id \in Ancestry(entities, {resource.id})
                        /\ resource.type \in r.scope_types)

\* granted at the offering under the issuer after the investor, whose
\* lineage does not reach the issuer, was denied
ScopedGrantAtDescendant ==
    \E p \in Procs : \E a \in assignments, r \in roles :
        /\ Decided(p)
        /\ SoleScopedAssignment(p, a, r)
        /\ a.entity_id = "e1"
        /\ req[p].request.resource_id = "e2"
        /\ ret[p].value = TRUE
        /\ "e1" \notin Ancestry(entities, {"e3"})
        /\ \E e \in ledger :
            /\ e.action = "authorization.evaluate"
            /\ e.entity_id = "e3"
            /\ <<"authorized", FALSE>> \in e.details

\* C12: authorize returns true only when, at the clock reading of the call,
\* some assignment of the principal that applies to the resource and grants
\* the action is inside its validity window; an expired or not yet
\* effective assignment gives no grant, also after an earlier grant
NoGrantOutsideWindow ==
    \A p \in Procs :
        (Decided(p) /\ ret[p].value = TRUE)
            => \E a \in assignments, r \in roles, resource \in entities :
                    /\ resource.id = req[p].request.resource_id
                    /\ Grants(a, r, req[p].request, resource, loc[p].now)

\* C13: authorize on a resource id with no row in the entity store raises
\* EntityNotFoundError whether or not the cache holds a decision for the key,
\* and neither the call nor the end of its request appends an audit entry or
\* writes the cache
MissingResourceFails ==
    [][\A p \in Procs :
        /\ (/\ pc[p] = "idle" /\ pc'[p] # "idle"
            /\ req'[p].op = "authorize"
            /\ \A e \in entities : e.id # req'[p].request.resource_id)
                => /\ pc'[p] = "rollback"
                   /\ ret'[p] = Raised("EntityNotFoundError")
                   /\ wr'[p] = EmptyWr
                   /\ ledger' = ledger
                   /\ store' = store /\ principalIndex' = principalIndex
        /\ (/\ pc[p] = "rollback" /\ pc'[p] = "idle"
            /\ req[p].op = "authorize")
                => /\ ledger' = ledger
                   /\ store' = store /\ principalIndex' = principalIndex
      ]_vars

\* the call failed for a resource whose key has a decision in the cache
MissingResourceWithCachedDecision ==
    \E p \in Procs :
        /\ pc[p] = "rollback"
        /\ req[p].op = "authorize"
        /\ ret[p] = Raised("EntityNotFoundError")
        /\ CacheGet(store, RequestKey(req[p].request)) # {}

---------------------------------------------------------------------------
(* Properties of the role and assignment manager *)

\* a request of p starts with this step
Begins(p, op) == pc[p] = "idle" /\ pc'[p] # "idle" /\ req'[p].op = op

\* the request of p ends with this step (commit or rollback)
Ends(p, op) == pc[p] \in {"commit", "rollback"} /\ pc'[p] = "idle" /\ req[p].op = op

HasTuple(a, payload) ==
    /\ a.principal_id = payload.principal_id
    /\ a.principal_type = payload.principal_type
    /\ a.role_id = payload.role_id
    /\ a.entity_id = payload.entity_id

\* the payload names an entity whose type the scoped role does not admit
OutOfScope(payload) ==
    /\ payload.entity_id # NoneVal
    /\ \E r \in roles, e \in entities :
        /\ r.id = payload.role_id /\ e.id = payload.entity_id
        /\ r.scope_types # {} /\ e.type \notin r.scope_types

TablesAndCacheUnchanged ==
    /\ assignments' = assignments /\ roles' = roles /\ ledger' = ledger
    /\ store' = store /\ principalIndex' = principalIndex

ReturnsExisting(p) ==
    /\ pc'[p] = "commit"
    /\ ret'[p].kind = "assignment"
    /\ ret'[p].value \in assignments
    /\ HasTuple(ret'[p].value, req'[p].payload)
    /\ wr'[p] = EmptyWr
    /\ TablesAndCacheUnchanged

\* C15 as stated: assignRole for a tuple that already has an assignment
\* returns that assignment, adds no row, appends no audit entry and does not
\* invalidate the cache
AssignExistingReturnsIt ==
    [][\A p \in Procs :
        /\ (Begins(p, "assign_role")
             /\ \E a \in assignments : HasTuple(a, req'[p].payload))
                => ReturnsExisting(p)
        /\ (/\ Ends(p, "assign_role")
            /\ ret[p].kind = "assignment" /\ ret[p].value \in assignments)
                => TablesAndCacheUnchanged
      ]_vars

\* C15 amended: assignRole for a tuple that already has an assignment, global
\* or entity-bound, returns that assignment when the role's scope check
\* passes and raises PermissionScopeError when the role has meanwhile been
\* scoped to other entity types; in both cases it adds no row, appends no
\* audit entry and does not invalidate the cache
AssignExistingIsNoOp ==
    [][\A p \in Procs :
        /\ (Begins(p, "assign_role")
             /\ \E a \in assignments : HasTuple(a, req'[p].payload))
                => IF OutOfScope(req'[p].payload)
                   THEN /\ pc'[p] = "rollback"
                        /\ ret'[p] = Raised("PermissionScopeError")
                        /\ wr'[p] = EmptyWr
                        /\ TablesAndCacheUnchanged
                   ELSE ReturnsExisting(p)
        /\ (/\ Ends(p, "assign_role")
            /\ \/ ret[p].kind = "exception"
               \/ ret[p].kind = "assignment" /\ ret[p].value \in assignments)
                => TablesAndCacheUnchanged
      ]_vars

\* the global assignment was returned again while the cache holds a
\* decision of its principal
GlobalAssignmentReturnedAgain ==
    \E p \in Procs :
        /\ pc[p] = "commit"
        /\ req[p].op = "assign_role"
        /\ ret[p].kind = "assignment"
        /\ ret[p].value \in assignments
        /\ ret[p].value.entity_id = NoneVal
        /\ wr[p] = EmptyWr
        /\ \E c \in store : c.key[1] = ret[p].value.principal_id

\* C17: assignRole at an entity whose type is not in the role's non-empty
\* scope_types raises PermissionScopeError, and neither the call nor the end
\* of its request changes assignments, the audit ledger or the cache
OutOfScopeAssignFails ==
    [][\A p \in Procs :
        /\ (Begins(p, "assign_role") /\ OutOfScope(req'[p].payload))
                => /\ pc'[p] = "rollback"
                   /\ ret'[p] = Raised("PermissionScopeError")
                   /\ wr'[p] = EmptyWr
                   /\ TablesAndCacheUnchanged
        /\ (Ends(p, "assign_role") /\ ret[p] = Raised("PermissionScopeError"))
                => TablesAndCacheUnchanged
      ]_vars

\* refused while the principal holds an assignment and a cached decision
OutOfScopeAssignRefused ==
    \E p \in Procs :
        /\ pc[p] = "rollback"
        /\ req[p].op = "assign_role"
        /\ ret[p] = Raised("PermissionScopeError")
        /\ OutOfScope(req[p].payload)
        /\ store # {}
        /\ assignments # {}

\* C16: the committed table holds at most one assignment per
\* (principal_id, principal_type, role_id, entity_id), global assignments
\* (entity_id null) included, also when assignRole calls overlap
OneAssignmentPerTuple ==
    \A a \in assignments, b \in assignments : HasTuple(a, b) => a = b

---------------------------------------------------------------------------
(* The role manager on a store that starts empty, requests overlapping *)

\* two createRole payloads with the same name
RoleVariants ==
    RoleCreates \cup
        {[name |-> "r1", description |-> "d2", scope_types |-> {"offering"},
          permissions |-> {"doc:upload"}]}

InitRoles ==
    /\ InitCommon
    /\ backend = "memory"
    /\ dialect = "postgresql"
    /\ entities = SeedEntities
    /\ roles = {}
    /\ assignments = {}
    /\ ledger = {}

RolesBegin(p) ==
    \/ \E payload \in RoleVariants : CreateRoleBegin(p, payload, NoneVal)
    \/ \E payload \in CorePayloads : AssignRoleBegin(p, payload)
    \/ \E id \in AssignmentIds : RevokeAssignmentBegin(p, id, NoneVal)
    \/ \E u \in RoleUpdates : UpdateRoleBegin(p, "r1", u, NoneVal)
    \/ \E request \in CoreRequests : AuthorizeBegin(p, request)

NextRoles ==
    \/ \E p \in Procs : Room(MaxSeq) /\ RolesBegin(p)
    \/ \E p \in Procs : AuthzSteps(p)

SpecRoles == InitRoles /\ [][NextRoles]_vars

UnknownRevokeIsNotFound ==
    \A p \in Procs :
        req[p].op = "revoke_assignment" =>
            /\ pc[p] = "rollback"
                => /\ ret[p] = Raised("RoleNotFoundError")
                   /\ StatusCode(ret[p].value) = 404
                   /\ wr[p] = EmptyWr
            /\ pc[p] = "commit"
                => \A a \in wr[p].delAssign, c \in store :
                        c.key[1] # a.principal_id

EntriesOf(rows, action) == {e \in rows : e.action = action}

\* the handler of p returned after a mutation: the transaction holds the
\* mutation and exactly one audit entry, of the mutation's action; an
\* assign_role that returned the existing row wrote nothing at all
AuditedMutation(p) ==
    LET one(action) ==
            /\ Cardinality(wr[p].entries) = 1
            /\ EntriesOf(wr[p].entries, action) = wr[p].entries
    IN CASE req[p].op = "create_role" ->
                wr[p].newRoles # {} /\ one("role.create")
         [] req[p].op = "update_role" ->
                wr[p].updRoles # {} /\ one("role.update")
         [] req[p].op = "assign_role" ->
                \/ wr[p].newAssign = {ret[p].value}
                        /\ one("role_assignment.create")
                \/ wr[p] = EmptyWr
         [] req[p].op = "revoke_assignment" ->
                wr[p].delAssign # {} /\ one("role_assignment.delete")
         [] OTHER -> TRUE

\* the committed tables change only when a request commits; a commit
\* publishes the mutation and its entries in one step, a rollback nothing
PublishedTogether ==
    /\ (roles' # roles \/ assignments' # assignments \/ ledger' # ledger)
            => \E q \in Procs : pc[q] = "commit" /\ pc'[q] = "idle"
    /\ \A p \in Procs :
            /\ (pc[p] = "commit" /\ pc'[p] = "idle")
                    => /\ ledger' = ledger \cup wr[p].entries
                       /\ wr[p].newRoles \cup wr[p].updRoles \subseteq roles'
                       /\ assignments' = (assignments \ wr[p].delAssign)
                                            \cup wr[p].newAssign
            /\ (pc[p] = "rollback" /\ pc'[p] = "idle")
                    => /\ ledger' = ledger /\ roles' = roles
                       /\ assignments' = assignments

---------------------------------------------------------------------------
(* Role definitions changing between authorize calls, requests running one *)
(* after another                                                           *)

DefsCreates ==
    RoleCreates
        \cup {[name |-> "r2", description |-> "d", scope_types |-> {"offering"},
                permissions |-> {"doc:upload", "doc:download"}]}

DefsRequests == {r \in AuthzRequests : r.resource_id = "e1"}

DefsBegin(p) ==
    \/ \E payload \in DefsCreates : CreateRoleBegin(p, payload, NoneVal)
    \/ \E u \in RoleUpdates : UpdateRoleBegin(p, "r1", u, NoneVal)
    \/ \E payload \in CorePayloads : AssignRoleBegin(p, payload)
    \/ \E request \in DefsRequests : AuthorizeBegin(p, request)

NextDefs ==
    \/ \E p \in Workers(TRUE) :
            InFlight = {} /\ Room(1 + MaxOps) /\ DefsBegin(p)
    \/ \E p \in Procs : AuthzSteps(p)

SpecDefs == InitSeeded /\ [][NextDefs]_vars

RoleChangeActions == {"role.create", "role.update"}

\* the action of the entry committed last
LastEntryActions ==
    {e.action : e \in {x \in ledger : x.sequence = MaxSequence(ledger)}}

\* C21: when a createRole or updateRole commits, the permission cache holds
\* no decision of any principal; an authorize call that follows the role
\* change with nothing committed in between is answered by evaluation, and
\* its decision is the one the engine gives on the changed roles
RoleChangeEmptiesCache ==
    /\ [](\A p \in Procs :
            (Decided(p) /\ LastEntryActions # {}
                        /\ LastEntryActions \subseteq RoleChangeActions)
                => /\ ret[p].kind = "evaluated"
                   /\ ret[p].value = FreshEvaluation(RequestKey(req[p].request)))
    /\ [][\A p \in Procs :
            (pc[p] = "commit" /\ (Ends(p, "create_role") \/ Ends(p, "update_role")))
                => store' = {} /\ principalIndex' = {}]_vars

\* p1 was granted doc:upload on e1 and the grant was cached; r1 was then
\* scoped to offerings, and the next call for the key is evaluated and denied
DeniedAfterRoleScoped ==
    \E p \in Procs :
        /\ Decided(p)
        /\ LastEntryActions = {"role.update"}
        /\ ret[p] = Returned("evaluated", FALSE)
        /\ \E e \in AuditsOf(ledger, req[p].request, TRUE) :
                e.sequence < MaxSequence(ledger)

\* the operation the step of p belongs to
StepOp(p) == IF pc[p] = "idle" THEN req'[p].op ELSE req[p].op

\* the principal of the assignment the request of p has created or deleted
AffectedPrincipal(p) == (CHOOSE a \in loc[p].assignment : TRUE).principal_id

\* C22: of all the steps of an assignRole or revokeAssignment call only
\* the invalidation changes the cache, and it removes the decisions whose
\* key names the assignment's principal and no other: every decision of
\* another principal is in the cache afterwards with its value
InvalidationScopedToPrincipal ==
    [][\A p \in Procs :
        (pc'[p] # pc[p] /\ StepOp(p) \in {"assign_role", "revoke_assignment"})
            => IF pc[p] = "invalidate_principal"
               THEN /\ store' = {c \in store : c.key[1] # AffectedPrincipal(p)}
                    /\ \A i \in principalIndex :
                            i.principal # AffectedPrincipal(p)
                                => i \in principalIndex'
               ELSE store' = store /\ principalIndex' = principalIndex]_vars

\* a revoke for p1 has dropped p1's cached grant while a decision of p2
\* stays in the cache
OtherPrincipalKept ==
    \E p \in Procs :
        /\ pc[p] = "commit"
        /\ req[p].op = "revoke_assignment"
        /\ loc[p].wasGranted # {}
        /\ AffectedPrincipal(p) = "p1"
        /\ \E c \in store : c.key[1] = "p2"
        /\ \A c \in store : c.key[1] # "p1"

\* C23: an authorize call that finds its key in the cache returns the value
\* stored under the key in its first step, without visiting the assignment
\* query, and from its first step to its end neither the tables, nor its
\* own transaction, nor the cache change; a value answered from the cache
\* is the one stored under the call's own key
CacheHitTouchesNothing ==
    [][\A p \in Procs :
        /\ (/\ Begins(p, "authorize")
            /\ \E e \in entities : e.id = req'[p].request.resource_id
            /\ \E c \in store : c.key = RequestKey(req'[p].request))
                => /\ pc'[p] = "commit"
                   /\ ret'[p].kind = "cached"
                   /\ [key |-> RequestKey(req'[p].request),
                       value |-> ret'[p].value] \in store
                   /\ wr'[p] = EmptyWr
                   /\ TablesAndCacheUnchanged
        /\ (Begins(p, "authorize") /\ ret'[p].kind = "cached")
                => [key |-> RequestKey(req'[p].request),
                    value |-> ret'[p].value] \in store
        /\ (Ends(p, "authorize") /\ ret[p].kind = "cached")
                => wr[p] = EmptyWr /\ TablesAndCacheUnchanged]_vars

\* a grant of p1 answered from the cache while the cache also holds a
\* denial of p2
GrantAnsweredFromCache ==
    \E p \in Procs :
        /\ Decided(p)
        /\ ret[p] = Returned("cached", TRUE)
        /\ req[p].request.user_id = "p1"
        /\ \E c \in store : c.key[1] = "p2" /\ ~c.value

---------------------------------------------------------------------------
(* Event ingestion, requests overlapping *)

IngestRequest(event_type, correlation_id, payload) ==
    [event_type |-> event_type, source |-> "document_vault",
     correlation_id |-> correlation_id, occurred_at |-> <<>>,
     schema_version |-> "v1", payload |-> payload]

\* two producers' events under one correlation id, and an event without
IngestRequests ==
    {IngestRequest("document.verified", "c1", "doc1"),
     IngestRequest("property.activated", "c1", "prop1"),
     IngestRequest("document.verified", NoneVal, "doc1")}

IngestSteps(p) ==
    \/ PublishEnvelope(p)
    \/ HandleEvent(p)
    \/ Commit(p)
    \/ Rollback(p)

NextIngest ==
    \/ \E p \in Procs : \E request \in IngestRequests : IngestBegin(p, request)
    \/ \E p \in Procs : IngestSteps(p)

SpecIngest == InitRoles /\ [][NextIngest]_vars

\* C24: the stored events with a correlation id are one per (source,
\* correlation_id), and an ingest call that returns with a correlation id
\* returns that one event
OneEventPerCorrelation ==
    /\ \A a \in platformEvents, b \in platformEvents :
            (/\ a.correlation_id # NoneVal
             /\ a.source = b.source
             /\ a.correlation_id = b.correlation_id) => a = b
    /\ \A p \in Procs :
            (/\ pc[p] = "commit" /\ req[p].op = "ingest"
             /\ req[p].request.correlation_id # NoneVal)
                => \A e \in platformEvents :
                        (/\ e.source = req[p].request.source
                         /\ e.correlation_id = req[p].request.correlation_id)
                            => e.event_id = ret[p].value.event_id

\* the stored events a request's (source, correlation_id) names
Correlated(request) ==
    {e \in platformEvents : /\ request.correlation_id # NoneVal
                            /\ e.source = request.source
                            /\ e.correlation_id = request.correlation_id}

\* C25: an ingest call whose (source, correlation_id) names a stored event
\* returns a stored event of that (source, correlation_id), identical to the
\* row in the table, in its first step; the step writes no row, calls
\* neither the publisher nor the orchestrator, and the end of the request
\* changes none of the three either
DedupReturnsStored ==
    [][\A p \in Procs :
        /\ (Begins(p, "ingest") /\ Correlated(req'[p].request) # {})
                => /\ pc'[p] = "commit"
                   /\ ret'[p].kind = "event"
                   /\ ret'[p].value \in Correlated(req'[p].request)
                   /\ wr'[p] = EmptyWr
                   /\ platformEvents' = platformEvents
                   /\ published' = published
                   /\ handled' = handled
        /\ (Ends(p, "ingest") /\ wr[p].newEvents = {})
                => /\ platformEvents' = platformEvents
                   /\ published' = published
                   /\ handled' = handled]_vars

\* a request of another event type and payload is answered with the stored
\* event of its correlation id
StoredEventReturned ==
    \E p \in Procs :
        /\ pc[p] = "commit"
        /\ req[p].op = "ingest"
        /\ wr[p] = EmptyWr
        /\ ret[p].value \in platformEvents
        /\ ret[p].value.payload # req[p].request.payload

\* event ids of the rows request p has flushed
FlushedIds(p) == {e.event_id : e \in wr[p].newEvents}

\* C26: the publisher is called only by a request that has written the
\* envelope's row; the orchestrator is called only by a request that has
\* written the row and whose publish of that event returned; no event whose
\* publish failed is ever handed to the orchestrator
PersistThenPublishThenDispatch ==
    /\ [](\A h \in handled :
            /\ \E x \in published :
                    x.delivered /\ x.envelope.event_id = h.event_id
            /\ \A x \in published :
                    x.envelope.event_id = h.event_id => x.delivered)
    /\ [][/\ \A x \in published' \ published :
                \E p \in Procs : /\ pc[p] = "publish"
                                  /\ x.envelope.event_id \in FlushedIds(p)
                                  /\ x.envelope.event_id \notin
                                        {h.event_id : h \in handled}
          /\ \A h \in handled' \ handled :
                \E p \in Procs : /\ pc[p] = "handle_event"
                                  /\ h.event_id \in FlushedIds(p)]_vars

\* one event was stored, published and handed to the orchestrator, the
\* publish of another failed
DispatchedAndFailedPublish ==
    /\ \E h \in handled, e \in platformEvents : h.event_id = e.event_id
    /\ \E x \in published :
            /\ ~x.delivered
            /\ x.envelope.event_id \notin {e.event_id : e \in platformEvents}

\* the exceptions that tell the caller of ingest that the publish failed
TransportErrors == {"TransportError", "EventServiceError"}

\* C27: a request whose publish failed ends with a transport error, and
\* the row of every event whose publish failed is in the table, or still in
\* the transaction of a request in progress
PublishFailureKeepsRow ==
    /\ \A p \in Procs :
            (pc[p] = "rollback" /\ req[p].op = "ingest")
                => ret[p].kind = "exception" /\ ret[p].value \in TransportErrors
    /\ \A x \in published :
            ~x.delivered
                => \/ \E e \in platformEvents :
                        e.event_id = x.envelope.event_id
                   \/ \E p \in Procs : x.envelope.event_id \in FlushedIds(p)

\* the envelope that was published under an event id
PublishedEnvelopes(event_id) == {x.envelope : x \in {y \in published : y.envelope.event_id = event_id}}

\* C28: every event handed to handle_event, whether the workflow started
\* or failed, is either held by its request, which ends in a commit and
\* returns the row it wrote, or is in the table as the row built from its
\* envelope
DispatchFailureNotSurfaced ==
    \A h \in handled :
        \/ \E p \in Procs :
                /\ pc[p] = "commit"
                /\ req[p].op = "ingest"
                /\ ret[p].kind = "event"
                /\ ret[p].value.event_id = h.event_id
                /\ wr[p].newEvents = {ret[p].value}
        \/ \E e \in platformEvents :
                /\ e.event_id = h.event_id
                /\ e \in {PlatformEventRow(v) : v \in PublishedEnvelopes(h.event_id)}

\* a failed workflow dispatch whose event was committed
FailedDispatchCommitted ==
    \E h \in handled : /\ ~h.started
                       /\ \E e \in platformEvents : e.event_id = h.event_id

\* C29: the event a successful ingest wrote and returns has
\* delivery_state = succeeded, and so has every stored event
SuccessfulIngestSucceeded ==
    /\ \A p \in Procs :
            (pc[p] = "commit" /\ req[p].op = "ingest" /\ ret[p].kind = "event")
                => ret[p].value.delivery_state = "succeeded"
    /\ \A e \in platformEvents : e.delivery_state = "succeeded"

(***************************************************************************)
(* Remote cache backend: every cache operation is one or more HTTP         *)
(* commands, and a command that fails raises out of the operation          *)
(***************************************************************************)

\* what _execute raises when the request fails or the status is an error
CacheFailure == Raised("HTTPError")

\* authorize whose GET command fails
CacheGetRaises(p, request) ==
    /\ pc[p] = "idle"
    /\ backend = "redis"
    /\ GetEntity(entities, request.resource_id) # {}
    /\ req' = [req EXCEPT ![p] = [op |-> "authorize", request |-> request]]
    /\ pc' = [pc EXCEPT ![p] = "rollback"]
    /\ ret' = [ret EXCEPT ![p] = CacheFailure]
    /\ UNCHANGED <<eventVars, backend,
                   now, dialect, entities, roles, assignments, ledger, store,
                   principalIndex, loc, wr, rowLocks, nextId, lastVerify,
                   tampered, hist>>

\* set whose SET command fails, or whose SET is done and whose SADD on the
\* principal's index fails
CacheSetRaises(p) ==
    /\ pc[p] = "cache_set"
    /\ backend = "redis"
    /\ \E written \in BOOLEAN :
            store' = IF written
                     THEN CacheSetStore(store, RequestKey(req[p].request),
                                        loc[p].authorized)
                     ELSE store
    /\ pc' = [pc EXCEPT ![p] = "rollback"]
    /\ ret' = [ret EXCEPT ![p] = CacheFailure]
    /\ UNCHANGED <<eventVars, backend,
                   now, dialect, entities, roles, assignments, ledger,
                   principalIndex, req, loc, wr, rowLocks, nextId,
                   lastVerify, tampered, hist>>

\* invalidate or invalidate_for_principal whose SMEMBERS command fails
InvalidateRaises(p) ==
    /\ pc[p] \in {"invalidate_all", "invalidate_principal"}
    /\ backend = "redis"
    /\ pc' = [pc EXCEPT ![p] = "rollback"]
    /\ ret' = [ret EXCEPT ![p] = CacheFailure]
    /\ UNCHANGED <<eventVars, backend,
                   now, dialect, entities, roles, assignments, ledger, store,
                   principalIndex, req, loc, wr, rowLocks, nextId,
                   lastVerify, tampered, hist>>

\* the seeded state with the Redis cache configured
InitRemote ==
    /\ InitCommon
    /\ backend = "redis"
    /\ dialect = "postgresql"
    /\ entities = SeedEntities
    /\ roles = {RoleUser}
    /\ assignments = {}
    /\ ledger = ChainFrom(dialect, {}, <<RoleCreateEvent(RoleUser)>>)

NextRemote ==
    \/ AuthzBegin(TRUE, 1 + MaxOps)
    \/ \E p \in Workers(TRUE), request \in AuthzRequests :
            InFlight = {} /\ Room(1 + MaxOps) /\ CacheGetRaises(p, request)
    \/ \E p \in Procs : CacheSetRaises(p)
    \/ \E p \in Procs : InvalidateRaises(p)
    \/ \E p \in Procs : AuthzSteps(p)

SpecRemote == InitRemote /\ [][NextRemote]_vars

\* C30: no request ends with the failure of a cache operation: authorize
\* returns its boolean and the role operations complete
CacheFailureAbsorbed ==
    \A p \in Procs : pc[p] = "rollback" => ret[p] # CacheFailure

---------------------------------------------------------------------------
(* Concurrent appenders under fair scheduling *)

\* the audit queue consumers alone, on a ledger that starts empty
NextAppend ==
    \/ \E p \in Procs : \E event \in ExternalEvents :
            Room(MaxSeq) /\ CallsLeft /\ RecordEventBegin(p, event)
    \/ \E p \in Procs : AuditSteps(p)

\* the database grants a row lock, and lets a waiting insert go on, in the
\* order of arrival (strong fairness for the two steps that can wait); a
\* request that has returned is committed or rolled back (weak fairness)
FairAppenders ==
    \A p \in Procs : /\ SF_vars(LockChainTip(p))
                     /\ SF_vars(InsertEntry(p))
                     /\ WF_vars(Commit(p) \/ Rollback(p))

SpecAppend == InitEmpty /\ [][NextAppend]_vars /\ FairAppenders

\* appender p waits for the FOR UPDATE lock on the tip row
WaitsForTip(p) ==
    /\ pc[p] = "lock_tip"
    /\ dialect # "sqlite"
    /\ VisibleEntries(p) # {}
    /\ \E l \in rowLocks :
            l[1] = ChainTip(VisibleEntries(p)).sequence /\ l[2] # p

\* appender p's INSERT waits for the uncommitted row of another
\* transaction that holds the same unique key
WaitsAtInsert(p) ==
    /\ pc[p] = "insert"
    /\ LET entry == BuildAuditEntry(dialect, loc[p].tip.sequence,
                                    loc[p].tip.entry_hash, loc[p].event)
       IN /\ JsonSerializable(entry.details)
          /\ ViolatesUnique(entry, PendingEntries(p))

\* every appender in progress ends
EveryAppenderCompletes == \A p \in Procs : pc[p] # "idle" ~> pc[p] = "idle"

\* C31: under fair scheduling every appender in progress completes, and on
\* a store with row locks an appender waits only while another appender
\* holds the lock on the chain tip
AppendersCompleteBlockedByTipOnly ==
    /\ EveryAppenderCompletes
    /\ [](dialect # "sqlite" =>
            \A p \in Procs :
                (WaitsForTip(p) \/ WaitsAtInsert(p))
                    => \E l \in rowLocks : l[2] # p)

---------------------------------------------------------------------------
(* Verification windows and missing entries *)

\* a row of audit_logs is deleted outside the ledger's operations (direct
\* SQL; no operation of the service deletes an entry)
RemoveEntry(k) ==
    /\ tampered = {}
    /\ InFlight = {}
    /\ \E e \in ledger : e.sequence = k /\ ledger' = ledger \ {e}
    /\ tampered' = {k}
    /\ UNCHANGED <<eventVars, backend,
                   now, dialect, entities, roles, assignments, store,
                   principalIndex, pc, req, loc, wr, ret, rowLocks, nextId,
                   lastVerify, hist>>

\* one appender at a time, one deletion, verification over any window
NextGap ==
    \/ \E p \in Workers(TRUE) : \E event \in TamperedEvents :
            /\ Room(MaxSeq) /\ InFlight = {}
            /\ RecordEventBegin(p, event)
    \/ \E p \in Procs : LockChainTip(p) \/ InsertEntry(p) \/ Commit(p)
    \/ \E k \in 1..MaxSeq : RemoveEntry(k)
    \/ \E s \in VerifyBounds, e \in VerifyBounds : RunVerify(s, e)

SpecGap == InitEmpty /\ [][NextGap]_vars

\* rows form an intact chain: sequences 1..N, each entry chained to the
\* one before it, the first to the genesis hash
IntactChain(rows) ==
    /\ {e.sequence : e \in rows} = 1..Cardinality(rows)
    /\ \A e \in rows :
            /\ e.sequence = 1 => e.previous_hash = GENESIS_HASH
            /\ \A f \in rows :
                    f.sequence = e.sequence + 1
                        => f.previous_hash = e.entry_hash

\* this step is a call of verify(start_sequence = s, end_sequence = e)
Verifies(s, e) ==
    /\ lastVerify' # lastVerify
    /\ lastVerify'.start_sequence = s
    /\ lastVerify'.end_sequence = e

\* C32: on an intact chain of N entries verify(s, e) with
\* 1 <= s <= e <= N returns checked = e - s + 1, start_sequence = s and
\* end_sequence = e; when s > 1, entry s - 1 is absent and the range holds
\* entries, verify fails
WindowVerified ==
    [][\A s \in 1..(MaxSeq + 1), e \in 1..(MaxSeq + 1) :
            Verifies(<<s>>, <<e>>)
                => /\ (IntactChain(ledger) /\ s <= e
                            /\ e <= Cardinality(ledger))
                        => lastVerify'.result
                                = VerificationResult(e - s + 1, s, e)
                   /\ (/\ s > 1
                       /\ \A r \in ledger : r.sequence # s - 1
                       /\ \E r \in ledger : s <= r.sequence /\ r.sequence <= e)
                        => ~lastVerify'.result.ok]_vars

\* a window that starts inside an intact chain of three entries
InnerWindowVerified ==
    /\ lastVerify.ran
    /\ lastVerify.tampered = {}
    /\ lastVerify.rows = 3
    /\ lastVerify.start_sequence = <<2>>
    /\ lastVerify.end_sequence = <<3>>
    /\ lastVerify.result = VerificationResult(2, 2, 3)

\* an entry of rows whose predecessor is missing
HasGap(rows) ==
    \E e \in rows : e.sequence > 1 /\ \A r \in rows : r.sequence # e.sequence - 1

\* C33: verify() without bounds fails whenever an entry that has a
\* successor is missing from the ledger, the first entry included; when it
\* succeeds, the entries it verified carry consecutive sequences
MissingEntryDetected ==
    [][Verifies(<<>>, <<>>)
            => /\ HasGap(ledger) => ~lastVerify'.result.ok
               /\ (lastVerify'.result.ok /\ ledger # {})
                    => LET r == lastVerify'.result
                       IN /\ r.checked = Cardinality(ledger)
                          /\ {e.sequence : e \in ledger}
                                = r.start_sequence..r.end_sequence
                          /\ r.checked
                                = r.end_sequence - r.start_sequence + 1]_vars

\* the first entry of a chain of three was removed and verify() failed
FirstEntryRemovedDetected ==
    /\ lastVerify.ran
    /\ lastVerify.tampered = {1}
    /\ lastVerify.rows = 2
    /\ lastVerify.start_sequence = <<>>
    /\ lastVerify.end_sequence = <<>>
    /\ ~lastVerify.result.ok

---------------------------------------------------------------------------
(* Role patches *)

\* RoleUpdate bodies: every field left out, sent as null, or sent with a
\* value
PatchUpdates ==
    [description : {<<>>, <<NoneVal>>, <<"d2">>},
     scope_types : {<<>>, <<NoneList>>, <<{"offering"}>>},
     permissions : {<<>>, <<NoneList>>, <<{"doc:verify"}>>}]

\* PATCH /roles/{role_id}, one request at a time, for the seeded role and
\* for an unknown id
NextPatch ==
    \/ \E p \in Workers(TRUE), u \in PatchUpdates, id \in {"r1", "r9"} :
            /\ InFlight = {}
            /\ Room(MaxSeq)
            /\ UpdateRoleBegin(p, id, u, NoneVal)
    \/ \E p \in Procs : \/ LockChainTip(p)
                         \/ InsertEntry(p)
                         \/ InvalidateAll(p)
                         \/ Commit(p)
                         \/ Rollback(p)

SpecPatch == InitSeeded /\ [][NextPatch]_vars

\* the request of p is an update_role that commits at this step
CommitsUpdate(p) ==
    /\ pc[p] = "commit"
    /\ pc'[p] = "idle"
    /\ req[p].op = "update_role"

RoleBefore(p) == CHOOSE r \in roles : r.id = req[p].role_id
RoleAfter(p) == CHOOSE r \in roles' : r.id = req[p].role_id

\* C34 as stated: a field absent from the patch keeps its value, id and
\* name never change, and a field supplied in the patch takes exactly the
\* supplied value
PatchTakesSuppliedValues ==
    [][\A p \in Procs :
        CommitsUpdate(p)
            => LET u == req[p].updates
                   old == RoleBefore(p)
                   new == RoleAfter(p)
               IN /\ new.id = old.id /\ new.name = old.name
                  /\ new.description = IF u.description = <<>>
                                       THEN old.description
                                       ELSE u.description[1]
                  /\ new.scope_types = IF u.scope_types = <<>>
                                       THEN old.scope_types
                                       ELSE u.scope_types[1]
                  /\ new.permissions = IF u.permissions = <<>>
                                       THEN old.permissions
                                       ELSE u.permissions[1]]_vars

\* C34 amended: a field absent from the patch keeps its value, id and name
\* never change, a field supplied with a value other than null takes that
\* value, a null description clears the description, a null scope_types
\* empties the list and a null permissions leaves the permission set as
\* it was
PatchChangesSuppliedFields ==
    [][\A p \in Procs :
        CommitsUpdate(p)
            => LET u == req[p].updates
                   old == RoleBefore(p)
                   new == RoleAfter(p)
               IN /\ new.id = old.id /\ new.name = old.name
                  /\ new.description = IF u.description = <<>>
                                       THEN old.description
                                       ELSE u.description[1]
                  /\ new.scope_types =
                        IF u.scope_types = <<>> THEN old.scope_types
                        ELSE IF u.scope_types = <<NoneList>> THEN {}
                        ELSE u.scope_types[1]
                  /\ new.permissions =
                        IF u.permissions \in {<<>>, <<NoneList>>}
                        THEN old.permissions
                        ELSE u.permissions[1]
                  /\ roles' \ {new} = roles \ {old}]_vars

\* the role after a patch of its description alone and a patch with a null
\* permissions: new description, the permissions it was created with
DescriptionPatchedPermissionsKept ==
    /\ \E r \in roles : /\ r.id = "r1"
                         /\ r.description = "d2"
                         /\ r.scope_types = RoleUser.scope_types
                         /\ r.permissions = RoleUser.permissions
    /\ \E e \in ledger :
            /\ e.action = "role.update"
            /\ \E kv \in e.details :
                    /\ kv[1] = "changes"
                    /\ kv[2].permissions = <<NoneList>>

---------------------------------------------------------------------------
(* The lineage walk, one loop iteration per step *)

EntityIds == {"e1", "e2", "e3"}

\* every parent graph over the three entities: parent_id is null or the id
\* of an entity, the entity itself included (the table has no constraint
\* against a cycle; the services create none, direct SQL can)
ParentGraphs ==
    {{[id |-> i, type |-> "issuer", parent_id |-> f[i]] : i \in EntityIds} :
        f \in [EntityIds -> EntityIds \cup {NoneVal}]}

InitLineage ==
    /\ InitCommon
    /\ backend = "memory"
    /\ dialect = "postgresql"
    /\ entities \in ParentGraphs
    /\ roles = {}
    /\ assignments = {}
    /\ ledger = {}

\* lines 139-141: SELECT parent_id WHERE id = current_id
ParentOf(ents, current_id) ==
    LET parents == {e.parent_id : e \in {x \in ents : x.id = current_id}}
    IN IF parents = {} THEN NoneVal ELSE CHOOSE x \in parents : TRUE

EndsAtRootOnly(lineage, parent_id) == parent_id = NoneVal
\* line 142: not parent_id or parent_id in visited
WalkEnds(lineage, parent_id) ==
    parent_id = NoneVal \/ parent_id \in SeqRange(lineage)

\* lines 135-137: lineage = [entity_id], current_id = entity_id
WalkBegin(p, entity_id) ==
    /\ pc[p] = "idle"
    /\ req' = [req EXCEPT ![p] = [op |-> "lineage", entity_id |-> entity_id]]
    /\ loc' = [loc EXCEPT ![p].lineage = <<entity_id>>]
    /\ pc' = [pc EXCEPT ![p] = "walk"]
    /\ UNCHANGED <<eventVars, backend,
                   now, dialect, entities, roles, assignments, ledger, store,
                   principalIndex, wr, ret, rowLocks, nextId, lastVerify,
                   tampered, hist>>

\* one iteration of the while loop; current_id is the last id appended.
\* The length guard stops the state space, not the walk: a walk it stops
\* stays in the loop and never returns
WalkStep(p) ==
    /\ pc[p] = "walk"
    /\ Len(loc[p].lineage) <= Cardinality(EntityIds)
    /\ LET lineage == loc[p].lineage
           parent_id == ParentOf(entities, lineage[Len(lineage)])
       IN IF WalkEnds(lineage, parent_id)
          THEN /\ pc' = [pc EXCEPT ![p] = "walked"]
               /\ ret' = [ret EXCEPT ![p] = Returned("lineage", lineage)]
               /\ loc' = loc
          ELSE /\ pc' = pc
               /\ ret' = ret
               /\ loc' = [loc EXCEPT ![p].lineage = Append(@, parent_id)]
    /\ UNCHANGED <<eventVars, backend,
                   now, dialect, entities, roles, assignments, ledger, store,
                   principalIndex, req, wr, rowLocks, nextId, lastVerify,
                   tampered, hist>>

\* the caller goes on with the lineage
WalkReturn(p) ==
    /\ pc[p] = "walked"
    /\ pc' = [pc EXCEPT ![p] = "idle"]
    /\ req' = [req EXCEPT ![p] = NoReq]
    /\ loc' = [loc EXCEPT ![p] = EmptyLoc]
    /\ ret' = [ret EXCEPT ![p] = NoRet]
    /\ UNCHANGED <<eventVars, backend,
                   now, dialect, entities, roles, assignments, ledger, store,
                   principalIndex, wr, rowLocks, nextId, lastVerify,
                   tampered, hist>>

NextLineage ==
    \/ \E p \in Procs, entity_id \in EntityIds : WalkBegin(p, entity_id)
    \/ \E p \in Procs : WalkStep(p)
    \/ \E p \in Procs : WalkReturn(p)

\* a thread that is in the loop runs its next iteration
SpecLineage ==
    InitLineage /\ [][NextLineage]_vars
        /\ \A p \in Procs : WF_vars(WalkStep(p))

\* C35: on every parent graph the walk returns; the lineage it returns
\* starts with the resource id, holds no id twice, continues each element
\* with that element's parent, and is the lineage authorize works with
LineageWalkTerminates ==
    /\ \A p \in Procs : pc[p] = "walk" ~> pc[p] = "walked"
    /\ [](\A p \in Procs :
            pc[p] = "walked"
                => LET lineage == ret[p].value
                   IN /\ lineage[1] = req[p].entity_id
                      /\ \A i \in 1..Len(lineage), j \in 1..Len(lineage) :
                            lineage[i] = lineage[j] => i = j
                      /\ \A i \in 2..Len(lineage) :
                            lineage[i] = ParentOf(entities, lineage[i - 1])
                      /\ lineage = CollectEntityLineageIds(entities,
                                        req[p].entity_id))

\* a walk that went round a cycle of three entities and returned
CycleWalked ==
    \E p \in Procs :
        /\ pc[p] = "walked"
        /\ Len(ret[p].value) = 3
        /\ ParentOf(entities, ret[p].value[3]) = ret[p].value[1]

---------------------------------------------------------------------------
(* Idempotency keys of the ledger *)

\* C36: no two ledger entries share a non-null event_id, also when calls
\* carrying the same event_id overlap, and the sequences of the ledger have
\* no gap
EventIdsUnique ==
    /\ \A e \in ledger, f \in ledger :
            (e.event_id # NoneVal /\ e.event_id = f.event_id) => e = f
    /\ {e.sequence : e \in ledger} = 1..Cardinality(ledger)

\* a call that passed the lookup while another call with the same event_id
\* had not committed, and whose insert was refused for the event_id alone
ConcurrentDuplicateRefused ==
    \E p \in Procs :
        /\ pc[p] = "rollback"
        /\ req[p].op = "record_event"
        /\ ret[p] = Raised("IntegrityError")
        /\ \E e \in ledger : e.event_id = req[p].event.event_id
        /\ \A e \in ledger : e.sequence # loc[p].tip.sequence + 1

---------------------------------------------------------------------------
(* The two cache backends side by side                                     *)
(* A string is the sequence of its parts between colons ("doc:upload" is   *)
(* <<"doc", "upload">>), so that joining strings with ":" is the           *)
(* concatenation of their parts. The Redis database is three families of   *)
(* keys that cannot coincide: the decision strings, the principals' index  *)
(* sets and the registry set.                                              *)

\* settings.redis_cache_prefix
CachePrefix == <<"epr">>

\* _perm_key: f"{prefix}:perm:{principal_id}:{principal_type}:{resource_id}:{action}"
PermKey(key) ==
    CachePrefix \o <<"perm">> \o key[1] \o key[2] \o key[3] \o key[4]

\* RedisPermissionCache.get: GET, None on nil, else str(result) == "1"
RedisGet(db, key) ==
    {c.value = "1" : c \in {x \in db.perm : x.key = PermKey(key)}}

\* RedisPermissionCache.set: SET key value PX ttl, SADD index key,
\* SADD registry principal (the EXPIRE commands set time limits only)
RedisSet(db, key, value, principal_id) ==
    [perm |-> {c \in db.perm : c.key # PermKey(key)}
                \cup {[key |-> PermKey(key),
                       value |-> IF value THEN "1" ELSE "0"]},
     index |-> db.index \cup {<<principal_id, PermKey(key)>>},
     registry |-> db.registry \cup {principal_id}]

\* RedisPermissionCache.invalidate_for_principal: SMEMBERS index,
\* DEL index and its members, SREM registry principal
RedisInvalidateForPrincipal(db, principal_id) ==
    LET keys == {i[2] : i \in {x \in db.index : x[1] = principal_id}}
    IN [perm |-> {c \in db.perm : c.key \notin keys},
        index |-> {i \in db.index : i[1] # principal_id},
        registry |-> db.registry \ {principal_id}]

RECURSIVE RedisInvalidateEach(_, _)
\* the for loop of RedisPermissionCache.invalidate
RedisInvalidateEach(db, principals) ==
    IF principals = {} THEN db
    ELSE LET principal == CHOOSE x \in principals : TRUE
         IN RedisInvalidateEach(RedisInvalidateForPrincipal(db, principal),
                                principals \ {principal})

\* RedisPermissionCache.invalidate: SMEMBERS registry, invalidate each
\* principal, DEL registry
RedisInvalidate(db) ==
    [RedisInvalidateEach(db, db.registry) EXCEPT !.registry = {}]

\* cache keys as authorize builds them: user id, principal_type,
\* resource id, action; ids are UUID texts, principal_type and action are
\* free text and may hold colons
CacheKeys ==
    {<< <<"u1">>, <<"user">>, <<"e1">>, <<"e2", "read">> >>,
     << <<"u1">>, <<"user", "e1">>, <<"e2">>, <<"read">> >>,
     << <<"u1">>, <<"user">>, <<"e2">>, <<"read">> >>,
     << <<"u2">>, <<"user">>, <<"e2">>, <<"read">> >>}

\* set(key, value, principal_id = the key's user id) on both backends
SetBoth(key, value) ==
    /\ store' = CacheSetStore(store, key, value)
    /\ principalIndex' = CacheSetIndex(principalIndex, key, key[1])
    /\ redis' = RedisSet(redis, key, value, key[1])
    /\ UNCHANGED <<platformEvents, published, handled, nextEventId, queue,
                   backend,
                   now, dialect, entities, roles, assignments, ledger, pc,
                   req, loc, wr, ret, rowLocks, nextId, lastVerify,
                   tampered, hist>>

\* invalidate_for_principal(principal_id) on both backends
InvalidateForPrincipalBoth(principal_id) ==
    /\ store' = InvalidatedStore(store, principalIndex, principal_id)
    /\ principalIndex' = InvalidatedIndex(principalIndex, principal_id)
    /\ redis' = RedisInvalidateForPrincipal(redis, principal_id)
    /\ UNCHANGED <<platformEvents, published, handled, nextEventId, queue,
                   backend,
                   now, dialect, entities, roles, assignments, ledger, pc,
                   req, loc, wr, ret, rowLocks, nextId, lastVerify,
                   tampered, hist>>

\* invalidate() on both backends
InvalidateBoth ==
    /\ store' = ClearedStore(store)
    /\ principalIndex' = ClearedIndex(principalIndex)
    /\ redis' = RedisInvalidate(redis)
    /\ UNCHANGED <<platformEvents, published, handled, nextEventId, queue,
                   backend,
                   now, dialect, entities, roles, assignments, ledger, pc,
                   req, loc, wr, ret, rowLocks, nextId, lastVerify,
                   tampered, hist>>

\* get(key) on both backends; the caller keeps the two answers
GetBoth(p, key) ==
    /\ ret' = [ret EXCEPT ![p] =
            Returned("get", [key |-> key, memory |-> CacheGet(store, key),
                             remote |-> RedisGet(redis, key)])]
    /\ UNCHANGED <<eventVars, backend,
                   now, dialect, entities, roles, assignments, ledger, store,
                   principalIndex, pc, req, loc, wr, rowLocks, nextId,
                   lastVerify, tampered, hist>>

NextCache ==
    \/ \E key \in CacheKeys, value \in BOOLEAN : SetBoth(key, value)
    \/ \E principal_id \in {k[1] : k \in CacheKeys} :
            InvalidateForPrincipalBoth(principal_id)
    \/ InvalidateBoth
    \/ \E key \in CacheKeys : GetBoth(1, key)

SpecCache == InitRoles /\ [][NextCache]_vars

\* C37: on the same sequence of calls every get returns the same result
\* from the in-process and from the remote backend
BackendsAgree ==
    /\ \A key \in CacheKeys : CacheGet(store, key) = RedisGet(redis, key)
    /\ \A p \in Procs :
            ret[p].kind = "get" => ret[p].value.memory = ret[p].value.remote

---------------------------------------------------------------------------
(* InMemoryPermissionCache under threads: every method body runs inside    *)
(* "with self._lock", one statement per step                               *)

\* positions of a thread that is inside a method body, holding the lock
CriticalPcs == {"set_index", "drop_keys", "clear_index"}

LockFree(p) == TRUE
\* with self._lock: the RLock is free or held by the thread itself
LockAvailable(p) == \A q \in Procs \ {p} : pc[q] \notin CriticalPcs

ThreadKeys == {RequestKey(r) : r \in AuthzRequests}

\* set, line 47: _store[key] = value
ThreadSetStore(p, key, value) ==
    /\ pc[p] = "idle"
    /\ LockAvailable(p)
    /\ store' = CacheSetStore(store, key, value)
    /\ req' = [req EXCEPT ![p] = [op |-> "cache.set", key |-> key,
                                  principal_id |-> key[1]]]
    /\ ret' = [ret EXCEPT ![p] = NoRet]
    /\ pc' = [pc EXCEPT ![p] = "set_index"]
    /\ UNCHANGED <<eventVars, backend,
                   now, dialect, entities, roles, assignments, ledger,
                   principalIndex, loc, wr, rowLocks, nextId, lastVerify,
                   tampered, hist>>

\* set, lines 48-50: _principal_index[principal_id].add(key)
ThreadSetIndex(p) ==
    /\ pc[p] = "set_index"
    /\ principalIndex' = CacheSetIndex(principalIndex, req[p].key,
                                       req[p].principal_id)
    /\ pc' = [pc EXCEPT ![p] = "idle"]
    /\ req' = [req EXCEPT ![p] = NoReq]
    /\ UNCHANGED <<eventVars, backend,
                   now, dialect, entities, roles, assignments, ledger, store,
                   loc, wr, ret, rowLocks, nextId, lastVerify, tampered,
                   hist>>

\* invalidate_for_principal, line 59: keys = _principal_index.pop(...)
ThreadPopIndex(p, principal_id) ==
    /\ pc[p] = "idle"
    /\ LockAvailable(p)
    /\ loc' = [loc EXCEPT ![p].keys =
            {i.key : i \in {x \in principalIndex :
                                x.principal = principal_id}}]
    /\ principalIndex' = InvalidatedIndex(principalIndex, principal_id)
    /\ req' = [req EXCEPT ![p] = [op |-> "cache.invalidate_for_principal",
                                  principal_id |-> principal_id]]
    /\ ret' = [ret EXCEPT ![p] = NoRet]
    /\ pc' = [pc EXCEPT ![p] = "drop_keys"]
    /\ UNCHANGED <<eventVars, backend,
                   now, dialect, entities, roles, assignments, ledger, store,
                   wr, rowLocks, nextId, lastVerify, tampered, hist>>

\* invalidate_for_principal, lines 60-61: _store.pop(key) for each key
ThreadDropKeys(p) ==
    /\ pc[p] = "drop_keys"
    /\ store' = {c \in store : c.key \notin loc[p].keys}
    /\ ret' = [ret EXCEPT ![p] =
                    Returned("invalidated", req[p].principal_id)]
    /\ pc' = [pc EXCEPT ![p] = "idle"]
    /\ req' = [req EXCEPT ![p] = NoReq]
    /\ loc' = [loc EXCEPT ![p] = EmptyLoc]
    /\ UNCHANGED <<eventVars, backend,
                   now, dialect, entities, roles, assignments, ledger,
                   principalIndex, wr, rowLocks, nextId, lastVerify,
                   tampered, hist>>

\* invalidate, line 54: _store.clear()
ThreadClearStore(p) ==
    /\ pc[p] = "idle"
    /\ LockAvailable(p)
    /\ store' = ClearedStore(store)
    /\ req' = [req EXCEPT ![p] = [op |-> "cache.invalidate"]]
    /\ ret' = [ret EXCEPT ![p] = NoRet]
    /\ pc' = [pc EXCEPT ![p] = "clear_index"]
    /\ UNCHANGED <<eventVars, backend,
                   now, dialect, entities, roles, assignments, ledger,
                   principalIndex, loc, wr, rowLocks, nextId, lastVerify,
                   tampered, hist>>

\* invalidate, line 55: _principal_index.clear()
ThreadClearIndex(p) ==
    /\ pc[p] = "clear_index"
    /\ principalIndex' = ClearedIndex(principalIndex)
    /\ pc' = [pc EXCEPT ![p] = "idle"]
    /\ req' = [req EXCEPT ![p] = NoReq]
    /\ UNCHANGED <<eventVars, backend,
                   now, dialect, entities, roles, assignments, ledger, store,
                   loc, wr, ret, rowLocks, nextId, lastVerify, tampered,
                   hist>>

\* get, lines 42-43
ThreadGet(p, key) ==
    /\ pc[p] = "idle"
    /\ LockAvailable(p)
    /\ ret' = [ret EXCEPT ![p] = Returned("get", CacheGet(store, key))]
    /\ UNCHANGED <<eventVars, backend,
                   now, dialect, entities, roles, assignments, ledger, store,
                   principalIndex, pc, req, loc, wr, rowLocks, nextId,
                   lastVerify, tampered, hist>>

NextThreads ==
    \/ \E p \in Procs, key \in ThreadKeys, value \in BOOLEAN :
            ThreadSetStore(p, key, value)
    \/ \E p \in Procs : ThreadSetIndex(p)
    \/ \E p \in Procs, principal_id \in {k[1] : k \in ThreadKeys} :
            ThreadPopIndex(p, principal_id)
    \/ \E p \in Procs : ThreadDropKeys(p)
    \/ \E p \in Procs : ThreadClearStore(p)
    \/ \E p \in Procs : ThreadClearIndex(p)
    \/ \E p \in Procs, key \in ThreadKeys : ThreadGet(p, key)

SpecThreads == InitRoles /\ [][NextThreads]_vars

\* C38: whenever no thread is inside a method of the cache, every key of
\* the store is listed in the index under the principal it was set for and
\* every key listed in the index is in the store; when
\* invalidate_for_principal(p) returns the store holds no decision of p
StoreAndIndexAgree ==
    /\ []((\A q \in Procs : pc[q] \notin CriticalPcs)
            => /\ \A c \in store :
                    [principal |-> c.key[1], key |-> c.key] \in principalIndex
               /\ \A i \in principalIndex : \E c \in store : c.key = i.key)
    /\ [][\A p \in Procs :
            (pc[p] = "drop_keys" /\ pc'[p] = "idle")
                => \A c \in store' : c.key[1] # req[p].principal_id]_vars

\* invalidate_for_principal(p1) returned in one thread after another thread
\* had read a decision of p1; the decision of p2 is still cached
InvalidatedUnderThreads ==
    \E p \in Procs, q \in Procs :
        /\ p # q
        /\ ret[p] = Returned("invalidated", "p1")
        /\ ret[q].kind = "get" /\ ret[q].value # {}
        /\ \A r \in Procs : pc[r] = "idle"
        /\ \A c \in store : c.key[1] # "p1"
        /\ \E c \in store : c.key[1] = "p2"

---------------------------------------------------------------------------
(* Moving an entity in the hierarchy *)

\* p1 holds r1 at the issuer e1; e2 is below e1 and e3 below e2
MoveAssignment == Assignment("1", "p1", "user", "e1", "r1", 0, <<>>)

InitMove ==
    /\ InitCommon
    /\ backend = "memory"
    /\ dialect = "postgresql"
    /\ entities = DeepEntities
    /\ roles = {RoleUser}
    /\ assignments = {MoveAssignment}
    /\ ledger = ChainFrom(dialect, {},
            <<RoleCreateEvent(RoleUser), AssignmentCreateEvent(MoveAssignment)>>)

MoveRequests ==
    {[user_id |-> "p1", principal_type |-> "user", action |-> "doc:upload",
      resource_id |-> r] : r \in {"e2", "e3"}}

\* authorize and PATCH /entities/{id} with a parent_id, one request at a
\* time
NextMove ==
    \/ \E p \in Workers(TRUE) :
            /\ InFlight = {}
            /\ Room(2 + MaxOps)
            /\ \/ \E request \in MoveRequests : AuthorizeBegin(p, request)
               \/ \E id \in {"e2", "e3"}, parent_id \in {NoneVal, "e1"} :
                        UpdateEntity(p, id, parent_id, NoneVal)
    \/ \E p \in Procs : \/ AuthorizeEvaluate(p)
                         \/ AuthorizeCacheSet(p)
                         \/ AuditSteps(p)

SpecMove == InitMove /\ [][NextMove]_vars

\* C39: an authorize call answered from the cache returns what the
\* evaluation against the entity's lineage at the time of the call
\* returns, also after an update changed a parent_id on that lineage
MovedEntityReevaluated ==
    [][\A p \in Procs :
        (Begins(p, "authorize") /\ ret'[p].kind = "cached")
            => ret'[p].value
                    = FreshEvaluation(RequestKey(req'[p].request))]_vars

---------------------------------------------------------------------------
(* The audit queue consumers (SQSEventConsumer, SQSAuditConsumer)           *)
(* queue.pending holds the messages SQS still has (visible or in flight),   *)
(* queue.sent every message ever sent; a message is the AuditEvent in its   *)
(* body. SQS delivers at least once: a message may be received again        *)
(* while a consumer still holds it.                                         *)

QueueMessages ==
    {e \in ExternalEvents : e.event_id # NoneVal}
    \cup {AuditEvent("x2", "upstream", "ext.a", NoneVal, "service", NoneVal,
                      NoneVal, NoneVal, {<<"step", "1">>}, Naive(1))}

\* an upstream service publishes an audit event to the queue
SendMessage(m) ==
    /\ m \notin queue.sent
    /\ queue' = [queue EXCEPT !.pending = @ \cup {m}, !.sent = @ \cup {m}]
    /\ UNCHANGED <<platformEvents, published, handled, nextEventId, redis,
                   backend,
                   now, dialect, entities, roles, assignments, ledger, store,
                   principalIndex, pc, req, loc, wr, ret, rowLocks, nextId,
                   lastVerify, tampered, hist>>

\* receive_message, then the handler opens session_scope and calls
\* record_event
ReceiveMessage(p, m) ==
    /\ queue.receipt[p] = NoEvent
    /\ m \in queue.pending
    /\ CallsLeft
    /\ RecordEventCall(p, m)
    /\ queue' = [queue EXCEPT !.receipt[p] = m]

\* the consumer has left the handler of the message it holds
HandlerEnded(p) == pc[p] = "idle" /\ queue.receipt[p] # NoEvent

DeletesRegardless(p) == TRUE
\* the loop reaches delete_message: no exception left the handler
HandlerSucceeded(p) == queue.returned[p]

\* what the loop does with the queue at the end of one message
EndMessage(p, pending) ==
    /\ HandlerEnded(p)
    /\ queue' = [queue EXCEPT !.pending = pending,
                              !.receipt[p] = NoEvent,
                              !.returned[p] = FALSE]
    /\ UNCHANGED <<platformEvents, published, handled, nextEventId, redis,
                   backend,
                   now, dialect, entities, roles, assignments, ledger, store,
                   principalIndex, pc, req, loc, wr, ret, rowLocks, nextId,
                   lastVerify, tampered, hist>>

\* except Exception: log and continue with the next message
SkipMessage(p) ==
    /\ ~HandlerSucceeded(p)
    /\ EndMessage(p, queue.pending)

\* delete_message with the receipt handle
DeleteMessage(p) ==
    /\ HandlerSucceeded(p)
    /\ EndMessage(p, queue.pending \ {queue.receipt[p]})

\* delete_message raises BotoCoreError or ClientError: logged only
DeleteFails(p) ==
    /\ HandlerSucceeded(p)
    /\ EndMessage(p, queue.pending)

NextQueue ==
    \/ \E m \in QueueMessages : SendMessage(m)
    \/ \E p \in Procs : \/ \E m \in QueueMessages : ReceiveMessage(p, m)
                         \/ AuditSteps(p)
                         \/ SkipMessage(p)
                         \/ DeleteMessage(p)
                         \/ DeleteFails(p)

SpecQueue == InitEmpty /\ [][NextQueue]_vars

EntriesWithEventId(event_id) == {e \in ledger : e.event_id = event_id}

\* C40: a message leaves the queue only in a delete by a consumer whose
\* handler returned, when the entry for its event_id is committed; a
\* consumer whose handler failed leaves the queue as it is; the ledger
\* never holds two entries for one event_id and holds one for every
\* message that has left the queue
DeletedOnlyAfterCommit ==
    /\ [](\A m \in queue.sent :
            /\ Cardinality(EntriesWithEventId(m.event_id)) <= 1
            /\ m \notin queue.pending
                    => Cardinality(EntriesWithEventId(m.event_id)) = 1)
    /\ [][\A m \in queue.pending :
            m \notin queue'.pending
                => /\ \E p \in Procs : /\ queue.receipt[p] = m
                                       /\ queue.returned[p]
                   /\ EntriesWithEventId(m.event_id) # {}]_vars
    /\ [][\A p \in Procs :
            (HandlerEnded(p) /\ ~queue.returned[p]
                /\ queue'.receipt[p] = NoEvent)
                => queue'.pending = queue.pending]_vars

\* every message was sent and has been deleted, one of them after a
\* redelivery or a duplicate, and the ledger holds the two event ids
QueueDrainedAfterRedelivery ==
    /\ queue.sent = QueueMessages
    /\ queue.pending = {}
    /\ InFlight = {}
    /\ hist.recorded > Cardinality(QueueMessages)
    /\ Cardinality(ledger) = 2

\* a consumer whose handler raised holds a message that is still queued
FailedMessageKept ==
    \E p \in Procs : /\ HandlerEnded(p)
                     /\ ~queue.returned[p]
                     /\ queue.receipt[p] \in queue.pending

====
